---- MODULE Spec2Model ----
(***************************************************************************)
(* State-machine model of the SIP execution-and-reconciliation engine:     *)
(* the SIP store, the transaction ledger, the identifier counter, the      *)
(* price oracle, the payment service and the scheduler's payment callback. *)
(*                                                                         *)
(* Dates are whole days counted from 2024-01-01 (day 0); every date the    *)
(* program builds is a local midnight, and the model leaves daylight       *)
(* saving shifts out.  Amounts are whole currency units; the step-up       *)
(* factor is carried with four decimal places.                             *)
(***************************************************************************)
EXTENDS Integers, Sequences, FiniteSets, TLC

(* ------------------------------ bounds -------------------------------- *)
MaxSips == 1
MaxTxns == 2
MaxBatchSips == 2
MaxStartDay == 400
MaxCalendarDay == 800
MaxRetryTxns == 4
MaxNav == 110
MaxInstallment == 3
MaxPortfolioTxns == 3
MaxSummarySips == 3
MaxSummaryTxns == 3
MaxLiveTxns == 3

(* ------------------------------ inputs -------------------------------- *)
UserIds == {"u1", "u2"}
UnknownUser == "u9"
FundIds == {"f1", "f2"}
UnknownFund == "f9"
StepUps == {-5, 0, 10}
AsOfDates == {31, 130}
NavValues == {0, 100}
Frequencies == {"WEEKLY", "MONTHLY", "QUARTERLY"}
SIPStates == {"ACTIVE", "PAUSED", "STOPPED"}
PaymentStatuses == {"PENDING", "SUCCESS", "FAILURE"}
UnknownSipId == <<"SIP", 0>>

Request(userId, fundId, amount, frequency, startDate, stepUpPercentage) ==
    [userId |-> userId, fundId |-> fundId, amount |-> amount,
     frequency |-> frequency, startDate |-> startDate,
     stepUpPercentage |-> stepUpPercentage]

\* The createSIP calls the model makes: one per frequency, on a start date
\* of 2024-01-31 (day 30), and one per way createSIP can refuse.
Requests ==
    { Request("u1", "f1", 1000, "MONTHLY", 30, 10),
      Request("u1", "f2", 1000, "WEEKLY", 30, 0),
      Request("u1", "f1", 1000, "QUARTERLY", 30, 0),
      Request(UnknownUser, "f1", 1000, "MONTHLY", 30, 0),
      Request("u1", UnknownFund, 1000, "MONTHLY", 30, 0),
      Request("u1", "f1", 0, "MONTHLY", 30, 0),
      Request("u1", "f1", 1000, "MONTHLY", 30, -5) }

(* --------------------------- calendar utility ------------------------- *)
isLeapYear(year) ==
    (year % 4 = 0 /\ year % 100 # 0) \/ (year % 400 = 0)

getDaysInMonth(year, month) ==
    LET daysInMonth == <<31, 28, 31, 30, 31, 30, 31, 31, 30, 31, 30, 31>>
    IN IF month = 2 /\ isLeapYear(year) THEN 29 ELSE daysInMonth[month]

\* Days from 2024-01-01 to the first day of a year and of a month in it.
LeapYearsBefore(year) ==
    ((year - 1) \div 4) - ((year - 1) \div 100) + ((year - 1) \div 400)

DaysBeforeYear(year) ==
    (year - 2024) * 365 + LeapYearsBefore(year) - LeapYearsBefore(2024)

DaysBeforeMonth(year, month) ==
    LET before == <<0, 31, 59, 90, 120, 151, 181, 212, 243, 273, 304, 334>>
    IN before[month] + (IF month > 2 /\ isLeapYear(year) THEN 1 ELSE 0)

\* The one element of a singleton set.
Only(S) == CHOOSE x \in S : TRUE

YearOf(date) ==
    CHOOSE y \in 2024..(2025 + date \div 365) :
        DaysBeforeYear(y) <= date /\ date < DaysBeforeYear(y + 1)

MonthOf(year, rest) ==
    CHOOSE m \in 1..12 :
        /\ DaysBeforeMonth(year, m) <= rest
        /\ rest < DaysBeforeMonth(year, m) + getDaysInMonth(year, m)

\* std::localtime: broken-down date of a day number (tm_mon is 0-based).
localtime(date) ==
    Only({ [tm_year |-> y, tm_mon |-> m - 1,
            tm_mday |-> d - DaysBeforeYear(y) - DaysBeforeMonth(y, m) + 1] :
           d \in {date}, y \in {YearOf(date)},
           m \in {MonthOf(YearOf(date), date - DaysBeforeYear(YearOf(date)))} })

\* std::mktime of a broken-down date whose day lies inside its month.
mktime(tm) ==
    DaysBeforeYear(tm.tm_year) + DaysBeforeMonth(tm.tm_year, tm.tm_mon + 1)
        + tm.tm_mday - 1

addWeeks(date, weeks) == date + 7 * weeks

\* addMonths that keeps the day of month and leaves the overflow to mktime.
addMonthsTmNoClamp(tm, months) ==
    LET mon == tm.tm_mon + months
    IN mktime([tm_year |-> tm.tm_year + (mon \div 12), tm_mon |-> mon % 12,
               tm_mday |-> tm.tm_mday])

\* DateUtils::addMonths on the broken-down date tm of its argument.
addMonthsTm(tm, months) ==
    LET originalDay == tm.tm_mday
        mon == tm.tm_mon + months
        year == tm.tm_year + (mon \div 12)
        month == mon % 12
        daysInMonth == getDaysInMonth(year, month + 1)
    IN mktime([tm_year |-> year, tm_mon |-> month,
               tm_mday |-> IF originalDay > daysInMonth THEN daysInMonth
                           ELSE originalDay])

addMonths(date, months) ==
    Only({addMonthsTm(tm, months) : tm \in {localtime(date)}})

addQuarters(date, quarters) == addMonths(date, quarters * 3)

isOnOrBefore(date1, date2) == date1 <= date2

calculateNextExecutionDate(currentDate, frequency) ==
    CASE frequency = "WEEKLY" -> addWeeks(currentDate, 1)
      [] frequency = "MONTHLY" -> addMonths(currentDate, 1)
      [] frequency = "QUARTERLY" -> addQuarters(currentDate, 1)
      [] OTHER -> addMonths(currentDate, 1)

(* ------------------------- step-up compounding ------------------------ *)
RECURSIVE PowScaled(_, _)
\* (1 + stepUpPercentage/100)^k with four decimal places.
PowScaled(stepUpPercentage, k) ==
    IF k = 0 THEN 10000
    ELSE (PowScaled(stepUpPercentage, k - 1) * (100 + stepUpPercentage)) \div 100

\* Simple instead of compound growth: one step-up of the base per installment.
calculateSteppedUpAmountSimple(baseAmount, stepUpPercentage, installmentNumber) ==
    IF stepUpPercentage <= 0 \/ installmentNumber <= 1
    THEN baseAmount
    ELSE (baseAmount * (100 + stepUpPercentage * (installmentNumber - 1))) \div 100

\* SIPScheduler::calculateSteppedUpAmount
calculateSteppedUpAmount(baseAmount, stepUpPercentage, installmentNumber) ==
    IF stepUpPercentage <= 0 \/ installmentNumber <= 1
    THEN baseAmount
    ELSE (baseAmount * PowScaled(stepUpPercentage, installmentNumber - 1)) \div 10000

(* ------------------------------- state -------------------------------- *)
VARIABLES
    sipStorage,       \* InMemorySIPRepository::storage: SIP id -> SIP
    userIndex,        \* InMemorySIPRepository::userIndex: user id -> SIP ids
    fundIndex,        \* InMemorySIPRepository::fundIndex: fund id -> SIP ids
    txnStorage,       \* InMemoryTransactionRepository::storage: id -> Transaction
    counter,          \* IdGenerator::counter
    navData,          \* MockMarketPriceService::navData: fund id -> NAV
    autoComplete,     \* MockPaymentService::autoComplete
    completionHandler,  \* MockPaymentService::completionHandler
    processedCallbacks, \* MockPaymentService::processedCallbacks: ids seen
    pendingPayments,  \* MockPaymentService::pendingPayments: id -> bound callback
    inflight,         \* callback invocations in progress, step by step
    last              \* the last call made on the system and how it ended

vars == <<sipStorage, userIndex, fundIndex, txnStorage, counter, navData,
          autoComplete, completionHandler, processedCallbacks,
          pendingPayments, inflight, last>>

(* ------------------------------ identifiers --------------------------- *)
\* IdGenerator::generateSimple: the prefix and the fetched counter value.
generateSimple(prefix, count) == <<prefix, count>>
generateSipId(count) == generateSimple("SIP", count)
generateTransactionId(count) == generateSimple("TXN", count)

(* ------------------------------- errors ------------------------------- *)
NoError == [kind |-> "none", id |-> <<"", 0>>, currentState |-> "", operation |-> ""]
InvalidStateException(sipId, currentState, operation) ==
    [kind |-> "InvalidState", id |-> sipId, currentState |-> currentState,
     operation |-> operation]
SIPNotFoundException(sipId) ==
    [kind |-> "SIPNotFound", id |-> sipId, currentState |-> "", operation |-> ""]
UserNotFoundException(userId) ==
    [kind |-> "UserNotFound", id |-> <<userId, 0>>, currentState |-> "", operation |-> ""]
FundNotFoundException(fundId) ==
    [kind |-> "FundNotFound", id |-> <<fundId, 0>>, currentState |-> "", operation |-> ""]
ValidationException(message) ==
    [kind |-> "Validation", id |-> <<"", 0>>, currentState |-> "", operation |-> message]

\* What a call leaves behind for its caller: the operation, its arguments,
\* its return value and the exception it ended with (NoError if none).
Call(op, id, arg, ret, err) ==
    [op |-> op, id |-> id, arg |-> arg, ret |-> ret, err |-> err]

(* ------------------------------- models ------------------------------- *)
\* SIP::SIP(id, userId, fundId, baseAmount, frequency, startDate, stepUp)
SIP(id, userId, fundId, baseAmount, frequency, startDate, stepUpPercentage) ==
    [id |-> id, userId |-> userId, fundId |-> fundId, baseAmount |-> baseAmount,
     frequency |-> frequency, state |-> "ACTIVE", startDate |-> startDate,
     nextExecutionDate |-> startDate, installmentCount |-> 0,
     stepUpPercentage |-> stepUpPercentage]

\* The double +infinity, carried as a figure above every finite one here.
Infinity == 1000000000

\* amount / nav on doubles, carried with three decimal places; a positive
\* amount divided by 0.0 is +infinity.
Units(amount, nav) ==
    IF nav = 0 THEN Infinity ELSE (amount * 1000) \div nav

\* Transaction::Transaction(id, sipId, amount, nav, date, type)
Transaction(id, sipId, amount, nav, date, type) ==
    [id |-> id, sipId |-> sipId, amount |-> amount,
     units |-> IF nav > 0 THEN Units(amount, nav) ELSE 0,
     nav |-> nav, status |-> "PENDING", date |-> date, type |-> type,
     callbackProcessed |-> FALSE]

(* ----------------------------- repositories --------------------------- *)
\* A map with no entry.
Empty == [k \in {} |-> 0]

Put(storage, id, value) ==
    [k \in DOMAIN storage \cup {id} |-> IF k = id THEN value ELSE storage[k]]

\* InMemorySIPRepository::update / InMemoryTransactionRepository::update
RepoUpdate(storage, entity) ==
    IF entity.id \in DOMAIN storage THEN [storage EXCEPT ![entity.id] = entity]
    ELSE storage

\* InMemorySIPRepository as a value: storage and its two secondary indexes.
Repository(storage, users, funds) ==
    [storage |-> storage, userIndex |-> users, fundIndex |-> funds]

\* index[key] of an unordered_map of sets; a key never written has no ids.
IdsUnder(index, key) == IF key \in DOMAIN index THEN index[key] ELSE {}

\* InMemorySIPRepository::addToIndexes
addToIndexes(repo, sip) ==
    [repo EXCEPT
        !.userIndex = Put(@, sip.userId, IdsUnder(@, sip.userId) \cup {sip.id}),
        !.fundIndex = Put(@, sip.fundId, IdsUnder(@, sip.fundId) \cup {sip.id})]

\* InMemorySIPRepository::removeFromIndexes
removeFromIndexes(repo, sip) ==
    [repo EXCEPT
        !.userIndex = Put(@, sip.userId, IdsUnder(@, sip.userId) \ {sip.id}),
        !.fundIndex = Put(@, sip.fundId, IdsUnder(@, sip.fundId) \ {sip.id})]

\* InMemorySIPRepository::add: storage[id] = sip; addToIndexes(sip);
add(repo, sip) ==
    addToIndexes([repo EXCEPT !.storage = Put(@, sip.id, sip)], sip)

\* InMemorySIPRepository::update: nothing for an id that is not stored.
update(repo, sip) ==
    IF sip.id \in DOMAIN repo.storage
    THEN addToIndexes(
             [removeFromIndexes(repo, repo.storage[sip.id])
                 EXCEPT !.storage = [@ EXCEPT ![sip.id] = sip]], sip)
    ELSE repo

\* InMemorySIPRepository::remove: nothing for an id that is not stored.
remove(repo, id) ==
    IF id \in DOMAIN repo.storage
    THEN [removeFromIndexes(repo, repo.storage[id])
             EXCEPT !.storage = [k \in DOMAIN @ \ {id} |-> @[k]]]
    ELSE repo

\* The writes that take the repository to the given storage, as the service
\* and the scheduler make them: add for an id not stored yet, update for a
\* stored one.
RECURSIVE StoreThrough(_, _, _)
StoreThrough(repo, storage, ids) ==
    IF ids = {} THEN repo
    ELSE LET id == CHOOSE i \in ids : TRUE IN
         StoreThrough(IF id \in DOMAIN repo.storage
                      THEN update(repo, storage[id])
                      ELSE add(repo, storage[id]),
                      storage, ids \ {id})

\* getDueSIPs that selects by state only.
getDueSIPsAnyDate(storage, asOfDate) ==
    {storage[k] : k \in {i \in DOMAIN storage : storage[i].state = "ACTIVE"}}

\* getDueSIPs that selects by date only.
getDueSIPsAnyState(storage, asOfDate) ==
    {storage[k] : k \in {i \in DOMAIN storage :
        storage[i].nextExecutionDate <= asOfDate}}

\* InMemorySIPRepository::getDueSIPs: copies of the stored SIPs that are due.
getDueSIPs(storage, asOfDate) ==
    {storage[k] : k \in {i \in DOMAIN storage :
        /\ storage[i].state = "ACTIVE"
        /\ storage[i].nextExecutionDate <= asOfDate}}

\* SIPScheduler::isDue
isDue(sip, asOfDate) ==
    IF sip.state # "ACTIVE" THEN FALSE
    ELSE isOnOrBefore(sip.nextExecutionDate, asOfDate)

(* ----------------------------- SIP service ----------------------------- *)
\* Each operation takes the SIP store and returns the store it leaves and
\* the exception it throws (NoError if it returns normally).
Outcome(storage, err) == [storage |-> storage, err |-> err]

\* pauseSIP that refuses only a SIP that is already PAUSED.
pauseSIPFromStopped(storage, sipId) ==
    IF sipId \notin DOMAIN storage
    THEN Outcome(storage, SIPNotFoundException(sipId))
    ELSE LET sip == storage[sipId] IN
         IF sip.state = "PAUSED"
         THEN Outcome(storage, InvalidStateException(sipId, sip.state, "pause"))
         ELSE Outcome(RepoUpdate(storage, [sip EXCEPT !.state = "PAUSED"]), NoError)

pauseSIP(storage, sipId) ==
    IF sipId \notin DOMAIN storage
    THEN Outcome(storage, SIPNotFoundException(sipId))
    ELSE LET sip == storage[sipId] IN
         IF sip.state = "PAUSED"
         THEN Outcome(storage, InvalidStateException(sipId, sip.state, "pause"))
         ELSE IF sip.state = "STOPPED"
         THEN Outcome(storage, InvalidStateException(sipId, sip.state, "pause"))
         ELSE Outcome(RepoUpdate(storage, [sip EXCEPT !.state = "PAUSED"]), NoError)

\* unpauseSIP that refuses only a SIP that is ACTIVE.
unpauseSIPFromStopped(storage, sipId) ==
    IF sipId \notin DOMAIN storage
    THEN Outcome(storage, SIPNotFoundException(sipId))
    ELSE LET sip == storage[sipId] IN
         IF sip.state = "ACTIVE"
         THEN Outcome(storage, InvalidStateException(sipId, sip.state, "unpause"))
         ELSE Outcome(RepoUpdate(storage, [sip EXCEPT !.state = "ACTIVE"]), NoError)

\* unpauseSIP that restarts the schedule from the start date.
unpauseSIPRestarting(storage, sipId) ==
    IF sipId \notin DOMAIN storage
    THEN Outcome(storage, SIPNotFoundException(sipId))
    ELSE LET sip == storage[sipId] IN
         IF sip.state # "PAUSED"
         THEN Outcome(storage, InvalidStateException(sipId, sip.state, "unpause"))
         ELSE Outcome(RepoUpdate(storage,
                  [sip EXCEPT !.state = "ACTIVE",
                              !.nextExecutionDate = sip.startDate]), NoError)

\* SIPServiceImpl::unpauseSIP
unpauseSIP(storage, sipId) ==
    IF sipId \notin DOMAIN storage
    THEN Outcome(storage, SIPNotFoundException(sipId))
    ELSE LET sip == storage[sipId] IN
         IF sip.state = "ACTIVE"
         THEN Outcome(storage, InvalidStateException(sipId, sip.state, "unpause"))
         ELSE IF sip.state = "STOPPED"
         THEN Outcome(storage, InvalidStateException(sipId, sip.state, "unpause"))
         ELSE Outcome(RepoUpdate(storage, [sip EXCEPT !.state = "ACTIVE"]), NoError)

stopSIP(storage, sipId) ==
    IF sipId \notin DOMAIN storage
    THEN Outcome(storage, SIPNotFoundException(sipId))
    ELSE LET sip == storage[sipId] IN
         IF sip.state = "STOPPED"
         THEN Outcome(storage, InvalidStateException(sipId, sip.state, "stop"))
         ELSE Outcome(RepoUpdate(storage, [sip EXCEPT !.state = "STOPPED"]), NoError)

\* modifyStepUp that also refuses a percentage of zero.
modifyStepUpRefusesZero(storage, sipId, newStepUpPercentage) ==
    IF sipId \notin DOMAIN storage
    THEN Outcome(storage, SIPNotFoundException(sipId))
    ELSE LET sip == storage[sipId] IN
         IF sip.state = "STOPPED"
         THEN Outcome(storage, InvalidStateException(sipId, sip.state, "modify step-up"))
         ELSE IF newStepUpPercentage <= 0
         THEN Outcome(storage, ValidationException("Step-up percentage cannot be negative"))
         ELSE Outcome(RepoUpdate(storage,
                  [sip EXCEPT !.stepUpPercentage = newStepUpPercentage]), NoError)

\* modifyStepUp that validates the percentage before it looks at the state.
modifyStepUpValidateFirst(storage, sipId, newStepUpPercentage) ==
    IF sipId \notin DOMAIN storage
    THEN Outcome(storage, SIPNotFoundException(sipId))
    ELSE LET sip == storage[sipId] IN
         IF newStepUpPercentage < 0
         THEN Outcome(storage, ValidationException("Step-up percentage cannot be negative"))
         ELSE IF sip.state = "STOPPED"
         THEN Outcome(storage, InvalidStateException(sipId, sip.state, "modify step-up"))
         ELSE Outcome(RepoUpdate(storage,
                  [sip EXCEPT !.stepUpPercentage = newStepUpPercentage]), NoError)

modifyStepUp(storage, sipId, newStepUpPercentage) ==
    IF sipId \notin DOMAIN storage
    THEN Outcome(storage, SIPNotFoundException(sipId))
    ELSE LET sip == storage[sipId] IN
         IF sip.state = "STOPPED"
         THEN Outcome(storage, InvalidStateException(sipId, sip.state, "modify step-up"))
         ELSE IF newStepUpPercentage < 0
         THEN Outcome(storage, ValidationException("Step-up percentage cannot be negative"))
         ELSE Outcome(RepoUpdate(storage,
                  [sip EXCEPT !.stepUpPercentage = newStepUpPercentage]), NoError)

\* onPaymentSuccess that writes the SIP back without counting.
onPaymentSuccessNoCount(storage, sipId) ==
    IF sipId \notin DOMAIN storage
    THEN Outcome(storage, SIPNotFoundException(sipId))
    ELSE Outcome(RepoUpdate(storage, storage[sipId]), NoError)

onPaymentSuccess(storage, sipId) ==
    IF sipId \notin DOMAIN storage
    THEN Outcome(storage, SIPNotFoundException(sipId))
    ELSE LET sip == storage[sipId] IN
         Outcome(RepoUpdate(storage,
             [sip EXCEPT !.installmentCount = sip.installmentCount + 1]), NoError)

\* updateNextExecutionDate that stores the SIP with the date it had.
updateNextExecutionDateKeepsDate(storage, sipId) ==
    IF sipId \notin DOMAIN storage
    THEN Outcome(storage, SIPNotFoundException(sipId))
    ELSE Outcome(RepoUpdate(storage, storage[sipId]), NoError)

updateNextExecutionDate(storage, sipId) ==
    IF sipId \notin DOMAIN storage
    THEN Outcome(storage, SIPNotFoundException(sipId))
    ELSE Only({Outcome(RepoUpdate(storage,
                   [sip EXCEPT !.nextExecutionDate =
                       calculateNextExecutionDate(sip.nextExecutionDate,
                                                  sip.frequency)]), NoError) :
               sip \in {storage[sipId]}})

\* SIPServiceImpl::createSIP; users and funds are the fixed catalogues
\* UserIds and FundIds, count is the identifier counter's current value.
\* createSIP that validates the amount and the step-up before it looks up
\* the user and the fund.
createSIPValidateFirst(storage, count, userId, fundId, amount, frequency, startDate, stepUpPercentage) ==
    IF amount <= 0
    THEN Outcome(storage, ValidationException("SIP amount must be positive"))
    ELSE IF stepUpPercentage < 0
    THEN Outcome(storage, ValidationException("Step-up percentage cannot be negative"))
    ELSE IF userId \notin UserIds
    THEN Outcome(storage, UserNotFoundException(userId))
    ELSE IF fundId \notin FundIds
    THEN Outcome(storage, FundNotFoundException(fundId))
    ELSE LET sipId == generateSipId(count) IN
         Outcome(Put(storage, sipId,
                     SIP(sipId, userId, fundId, amount, frequency, startDate,
                         stepUpPercentage)), NoError)

\* createSIP that stores every SIP under the first identifier.
createSIPInFirstSlot(storage, count, userId, fundId, amount, frequency, startDate, stepUpPercentage) ==
    IF userId \notin UserIds
    THEN Outcome(storage, UserNotFoundException(userId))
    ELSE IF fundId \notin FundIds
    THEN Outcome(storage, FundNotFoundException(fundId))
    ELSE IF amount <= 0
    THEN Outcome(storage, ValidationException("SIP amount must be positive"))
    ELSE IF stepUpPercentage < 0
    THEN Outcome(storage, ValidationException("Step-up percentage cannot be negative"))
    ELSE LET sipId == generateSipId(1) IN
         Outcome(Put(storage, sipId,
                     SIP(sipId, userId, fundId, amount, frequency, startDate,
                         stepUpPercentage)), NoError)

\* SIPServiceImpl::createSIP
createSIP(storage, count, userId, fundId, amount, frequency, startDate, stepUpPercentage) ==
    IF userId \notin UserIds
    THEN Outcome(storage, UserNotFoundException(userId))
    ELSE IF fundId \notin FundIds
    THEN Outcome(storage, FundNotFoundException(fundId))
    ELSE IF amount <= 0
    THEN Outcome(storage, ValidationException("SIP amount must be positive"))
    ELSE IF stepUpPercentage < 0
    THEN Outcome(storage, ValidationException("Step-up percentage cannot be negative"))
    ELSE LET sipId == generateSipId(count) IN
         Outcome(Put(storage, sipId,
                     SIP(sipId, userId, fundId, amount, frequency, startDate,
                         stepUpPercentage)), NoError)

(* --------------------- payment callback reconciler -------------------- *)
\* The stores a handler works on, threaded through the calls it makes, with
\* the payment service's autoComplete setting.
Stores(sips, txns, count, pending, processed) ==
    [sips |-> sips, txns |-> txns, count |-> count, pending |-> pending,
     processed |-> processed, auto |-> autoComplete,
     handler |-> completionHandler]

\* handlePaymentCallback without its callback-processed test.
handlePaymentCallbackNoCheck(st, transactionId, sipId, status) ==
    IF transactionId \notin DOMAIN st.txns THEN st
    ELSE LET txn == st.txns[transactionId]
             updated == [txn EXCEPT !.status = status, !.callbackProcessed = TRUE]
             st1 == [st EXCEPT !.txns = RepoUpdate(st.txns, updated)]
         IN IF status = "SUCCESS"
            THEN [st1 EXCEPT !.sips =
                     updateNextExecutionDate(onPaymentSuccess(st1.sips, sipId).storage,
                                             sipId).storage]
            ELSE st1

\* handlePaymentCallback that never sets the callback-processed flag.
handlePaymentCallbackNoFlag(st, transactionId, sipId, status) ==
    IF transactionId \notin DOMAIN st.txns THEN st
    ELSE LET txn == st.txns[transactionId] IN
         IF txn.callbackProcessed THEN st
         ELSE LET updated == [txn EXCEPT !.status = status]
                  st1 == [st EXCEPT !.txns = RepoUpdate(st.txns, updated)]
              IN IF status = "SUCCESS"
                 THEN [st1 EXCEPT !.sips =
                          updateNextExecutionDate(
                              onPaymentSuccess(st1.sips, sipId).storage, sipId).storage]
                 ELSE st1

\* handlePaymentCallback that updates the SIP whatever the status is.
handlePaymentCallbackAnyStatus(st, transactionId, sipId, status) ==
    IF transactionId \notin DOMAIN st.txns THEN st
    ELSE LET txn == st.txns[transactionId] IN
         IF txn.callbackProcessed THEN st
         ELSE LET updated == [txn EXCEPT !.status = status,
                                         !.callbackProcessed = TRUE]
                  st1 == [st EXCEPT !.txns = RepoUpdate(st.txns, updated)]
              IN [st1 EXCEPT !.sips =
                     updateNextExecutionDate(
                         onPaymentSuccess(st1.sips, sipId).storage, sipId).storage]

\* handlePaymentCallback that advances the schedule from the transaction's
\* execution date instead of the stored next-execution date.
handlePaymentCallbackFromExecutionDate(st, transactionId, sipId, status) ==
    IF transactionId \notin DOMAIN st.txns THEN st
    ELSE LET txn == st.txns[transactionId] IN
         IF txn.callbackProcessed THEN st
         ELSE LET updated == [txn EXCEPT !.status = status,
                                         !.callbackProcessed = TRUE]
                  st1 == [st EXCEPT !.txns = RepoUpdate(st.txns, updated)]
                  counted == onPaymentSuccess(st1.sips, sipId).storage
              IN IF status = "SUCCESS" /\ sipId \in DOMAIN counted
                 THEN [st1 EXCEPT !.sips = [counted EXCEPT ![sipId].nextExecutionDate =
                          calculateNextExecutionDate(txn.date, counted[sipId].frequency)]]
                 ELSE st1

\* handlePaymentCallback that goes on to the SIP when the transaction is
\* not found.
handlePaymentCallbackWithoutTransaction(st, transactionId, sipId, status) ==
    LET onSuccess(st1) ==
            LET counted == onPaymentSuccess(st1.sips, sipId)
                advanced == updateNextExecutionDate(counted.storage, sipId)
            IN IF counted.err # NoError
               THEN [st1 EXCEPT !.sips = counted.storage]
               ELSE [st1 EXCEPT !.sips = advanced.storage]
    IN IF transactionId \notin DOMAIN st.txns
       THEN IF status = "SUCCESS" THEN onSuccess(st) ELSE st
       ELSE LET txn == st.txns[transactionId] IN
            IF txn.callbackProcessed THEN st
            ELSE LET updated == [txn EXCEPT !.status = status,
                                            !.callbackProcessed = TRUE]
                     st1 == [st EXCEPT !.txns = RepoUpdate(st.txns, updated)]
                 IN IF status = "SUCCESS" THEN onSuccess(st1) ELSE st1

\* SIPScheduler::handlePaymentCallback, run to completion.
handlePaymentCallback(stores, transactionId, sipId, status) ==
    Only({
        IF transactionId \notin DOMAIN st.txns THEN st
        ELSE LET txn == st.txns[transactionId] IN
             IF txn.callbackProcessed THEN st
             ELSE LET updated == [txn EXCEPT !.status = status,
                                             !.callbackProcessed = TRUE]
                      st1 == [st EXCEPT !.txns = RepoUpdate(st.txns, updated)]
                  IN IF status = "SUCCESS"
                     THEN LET counted == onPaymentSuccess(st1.sips, sipId)
                              advanced == updateNextExecutionDate(counted.storage, sipId)
                          IN IF counted.err # NoError
                             THEN [st1 EXCEPT !.sips = counted.storage]
                             ELSE [st1 EXCEPT !.sips = advanced.storage]
                     ELSE st1
        : st \in {stores} })

(* --------------------------- payment service -------------------------- *)
\* A PaymentCallback left empty, and one that keeps count of the calls it
\* gets for each transaction id.
NoHandler == [set |-> FALSE, calls |-> Empty]
CountingHandler == [set |-> TRUE, calls |-> Empty]

\* if (completionHandler) completionHandler(transactionId, status);
called(handler, transactionId, status) ==
    IF handler.set
    THEN [handler EXCEPT !.calls =
             Put(@, transactionId,
                 IF transactionId \in DOMAIN @ THEN @[transactionId] + 1 ELSE 1)]
    ELSE handler

notify(st, transactionId, status) ==
    [st EXCEPT !.handler = called(@, transactionId, status)]

\* MockPaymentService::onPaymentCallback: the processed ids and the handler
\* after the call.
onPaymentCallback(processed, handler, transactionId, status) ==
    IF transactionId \in processed
    THEN [processed |-> processed, handler |-> handler]
    ELSE [processed |-> processed \cup {transactionId},
          handler |-> called(handler, transactionId, status)]

\* MockPaymentService::initiatePayment.  callback is the closure the
\* scheduler binds, held as the SIP id it captured; status is the result
\* simulatePaymentResult draws when the service completes at once.
initiatePayment(stores, transactionId, amount, callback, status) ==
    Only({
        IF st.auto
        THEN notify(handlePaymentCallback(st, transactionId, callback, status),
                    transactionId, status)
        ELSE [st EXCEPT !.pending = Put(st.pending, transactionId,
                                        [amount |-> amount, callback |-> callback])]
        : st \in {stores} })

\* completePayment that also completes another payment it holds.
completePaymentAndAnother(st, transactionId, status) ==
    IF transactionId \in DOMAIN st.pending
    THEN LET others == DOMAIN st.pending \ {transactionId}
             callback == st.pending[transactionId].callback
             erased == [k \in others |-> st.pending[k]]
             done == handlePaymentCallback([st EXCEPT !.pending = erased],
                                           transactionId, callback, status)
         IN IF others = {} THEN done
            ELSE LET other == CHOOSE k \in others : TRUE
                 IN handlePaymentCallback(
                        [done EXCEPT !.pending =
                            [k \in others \ {other} |-> st.pending[k]]],
                        other, st.pending[other].callback, status)
    ELSE st

\* completePayment that invokes the callback of a paid payment only.
completePaymentDropsFailure(st, transactionId, status) ==
    IF transactionId \in DOMAIN st.pending
    THEN LET callback == st.pending[transactionId].callback
             erased == [k \in DOMAIN st.pending \ {transactionId} |-> st.pending[k]]
         IN IF status = "SUCCESS"
            THEN handlePaymentCallback([st EXCEPT !.pending = erased],
                                       transactionId, callback, status)
            ELSE [st EXCEPT !.pending = erased]
    ELSE st

\* MockPaymentService::completePayment
completePayment(stores, transactionId, status) ==
    Only({
        IF transactionId \in DOMAIN st.pending
        THEN LET callback == st.pending[transactionId].callback
                 erased == [k \in DOMAIN st.pending \ {transactionId} |-> st.pending[k]]
             IN notify(handlePaymentCallback([st EXCEPT !.pending = erased],
                                             transactionId, callback, status),
                       transactionId, status)
        ELSE st
        : st \in {stores} })

(* ------------------------------ scheduler ------------------------------ *)
\* executeSIP that prices the installment already paid instead of the next.
executeSIPPaidInstallment(st, sip, executionDate, status) ==
    IF sip.state # "ACTIVE"
    THEN [st |-> st, err |-> NoError]
    ELSE IF sip.fundId \notin DOMAIN navData
    THEN [st |-> st, err |-> FundNotFoundException(sip.fundId)]
    ELSE LET nav == navData[sip.fundId]
             amount == calculateSteppedUpAmount(sip.baseAmount, sip.stepUpPercentage,
                                                sip.installmentCount)
             units == Units(amount, nav)
             txnId == generateTransactionId(st.count)
             txn == [Transaction(txnId, sip.id, amount, nav, executionDate, "INSTALLMENT")
                        EXCEPT !.units = units, !.status = "PENDING"]
             added == [st EXCEPT !.txns = Put(st.txns, txnId, txn),
                                 !.count = st.count + 1]
         IN [st |-> initiatePayment(added, txnId, amount, sip.id, status),
             err |-> NoError]

\* executeSIP that derives the transaction id from the SIP instead of
\* drawing a fresh one.
executeSIPReusesId(st, sip, executionDate, status) ==
    IF sip.state # "ACTIVE"
    THEN [st |-> st, err |-> NoError]
    ELSE IF sip.fundId \notin DOMAIN navData
    THEN [st |-> st, err |-> FundNotFoundException(sip.fundId)]
    ELSE LET nav == navData[sip.fundId]
             amount == calculateSteppedUpAmount(sip.baseAmount, sip.stepUpPercentage,
                                                sip.installmentCount + 1)
             units == Units(amount, nav)
             txnId == generateTransactionId(sip.id[2] + 1)
             txn == [Transaction(txnId, sip.id, amount, nav, executionDate, "INSTALLMENT")
                        EXCEPT !.units = units, !.status = "PENDING"]
             added == [st EXCEPT !.txns = Put(st.txns, txnId, txn),
                                 !.count = st.count + 1]
         IN [st |-> initiatePayment(added, txnId, amount, sip.id, status),
             err |-> NoError]

\* executeSIP that steps the amount up with every attempt made for the SIP.
executeSIPCountsAttempts(st, sip, executionDate, status) ==
    IF sip.state # "ACTIVE"
    THEN [st |-> st, err |-> NoError]
    ELSE IF sip.fundId \notin DOMAIN navData
    THEN [st |-> st, err |-> FundNotFoundException(sip.fundId)]
    ELSE LET nav == navData[sip.fundId]
             attempts == Cardinality({t \in DOMAIN st.txns : st.txns[t].sipId = sip.id})
             amount == calculateSteppedUpAmount(sip.baseAmount, sip.stepUpPercentage,
                                                attempts + 1)
             units == Units(amount, nav)
             txnId == generateTransactionId(st.count)
             txn == [Transaction(txnId, sip.id, amount, nav, executionDate, "INSTALLMENT")
                        EXCEPT !.units = units, !.status = "PENDING"]
             added == [st EXCEPT !.txns = Put(st.txns, txnId, txn),
                                 !.count = st.count + 1]
         IN [st |-> initiatePayment(added, txnId, amount, sip.id, status),
             err |-> NoError]

\* SIPScheduler::executeSIP on a SIP copy taken by the pass; the result is
\* the stores it leaves and the exception it throws, if any.
executeSIP(stores, dueSIP, executionDate, status) ==
    Only({
        IF sip.state # "ACTIVE"
        THEN [st |-> st, err |-> NoError]
        ELSE IF sip.fundId \notin DOMAIN navData
        THEN [st |-> st, err |-> FundNotFoundException(sip.fundId)]
        ELSE LET nav == navData[sip.fundId]
                 amount == calculateSteppedUpAmount(sip.baseAmount, sip.stepUpPercentage,
                                                    sip.installmentCount + 1)
                 units == Units(amount, nav)
                 txnId == generateTransactionId(st.count)
                 txn == [Transaction(txnId, sip.id, amount, nav, executionDate, "INSTALLMENT")
                            EXCEPT !.units = units, !.status = "PENDING"]
                 added == [st EXCEPT !.txns = Put(st.txns, txnId, txn),
                                     !.count = st.count + 1]
             IN [st |-> initiatePayment(added, txnId, amount, sip.id, status),
                 err |-> NoError]
        : st \in {stores}, sip \in {dueSIP} })

RECURSIVE executeLoopAbortOnError(_, _, _, _, _)
\* The loop without its per-SIP catch: the first exception ends the pass.
executeLoopAbortOnError(st, dueSIPs, i, asOfDate, results) ==
    IF i > Len(dueSIPs) THEN st
    ELSE LET sip == dueSIPs[i]
             run == executeSIP(st, sip, asOfDate, results[sip.id])
         IN IF run.err = NoError
            THEN executeLoopAbortOnError(
                     [run.st EXCEPT !.processed = run.st.processed + 1],
                     dueSIPs, i + 1, asOfDate, results)
            ELSE run.st

RECURSIVE executeLoopWhileDue(_, _, _, _, _)
\* The loop that executes a SIP again while its payment moved it on and it
\* is still due.
executeLoopWhileDue(st, dueSIPs, i, asOfDate, results) ==
    IF i > Len(dueSIPs) THEN st
    ELSE LET sip == dueSIPs[i]
             run == executeSIP(st, sip, asOfDate, results[sip.id])
             next == IF run.err = NoError
                     THEN [run.st EXCEPT !.processed = run.st.processed + 1]
                     ELSE run.st
             stored == next.sips[sip.id]
         IN IF stored # sip /\ isDue(stored, asOfDate)
            THEN executeLoopWhileDue(next, [dueSIPs EXCEPT ![i] = stored], i,
                                     asOfDate, results)
            ELSE executeLoopWhileDue(next, dueSIPs, i + 1, asOfDate, results)

RECURSIVE executeLoop(_, _, _, _, _)
\* The loop of SIPScheduler::executeDueSIPs over dueSIPs from position i.
executeLoop(stores, dueSIPs, i, asOfDate, results) ==
    Only({
        IF i > Len(dueSIPs) THEN st
        ELSE LET sip == dueSIPs[i]
                 run == executeSIP(st, sip, asOfDate, results[sip.id])
                 next == IF run.err = NoError
                         THEN [run.st EXCEPT !.processed = run.st.processed + 1]
                         ELSE run.st
             IN executeLoop(next, dueSIPs, i + 1, asOfDate, results)
        : st \in {stores} })

\* The orders in which the repository's hash map can hand out a set of SIPs.
Orders(S) ==
    {f \in [1..Cardinality(S) -> S] : \A i, j \in DOMAIN f : f[i] = f[j] => i = j}

(* ------------------------------- actions ------------------------------- *)
Init ==
    /\ sipStorage = Empty
    /\ userIndex = Empty
    /\ fundIndex = Empty
    /\ txnStorage = Empty
    /\ counter = 1
    /\ navData = [fundId \in {"f1"} |-> 100]
    /\ autoComplete \in BOOLEAN
    /\ completionHandler = NoHandler
    /\ processedCallbacks = {}
    /\ pendingPayments = Empty
    /\ inflight = Empty
    /\ last = Call("init", <<"", 0>>, 0, 0, NoError)

Now == Stores(sipStorage, txnStorage, counter, pendingPayments, 0)

\* The two indexes after the writes that changed the SIP store in this step.
IndexesFollow ==
    \E repo \in {StoreThrough(Repository(sipStorage, userIndex, fundIndex),
                              sipStorage',
                              {id \in DOMAIN sipStorage' :
                                  \/ id \notin DOMAIN sipStorage
                                  \/ sipStorage'[id] # sipStorage[id]})} :
        /\ userIndex' = repo.userIndex
        /\ fundIndex' = repo.fundIndex

Commit(st) ==
    /\ sipStorage' = st.sips
    /\ IndexesFollow
    /\ txnStorage' = st.txns
    /\ counter' = st.count
    /\ pendingPayments' = st.pending
    /\ completionHandler' = st.handler

Idle == inflight = Empty

\* A call of the SIP service: only the SIP store can change.
ServiceCall(op, sipId, arg, out) ==
    /\ Idle
    /\ sipStorage' = out.storage
    /\ IndexesFollow
    /\ last' = Call(op, sipId, arg, 0, out.err)
    /\ UNCHANGED <<txnStorage, navData, autoComplete, completionHandler, processedCallbacks, pendingPayments, inflight>>

\* createSIP with one of the requests, while fewer than maxSips SIPs exist.
CreateSIPsOf(requests, maxSips) ==
    \E r \in requests :
        LET out == createSIP(sipStorage, counter, r.userId, r.fundId, r.amount,
                             r.frequency, r.startDate, r.stepUpPercentage)
        IN /\ out.err = NoError => Cardinality(DOMAIN sipStorage) < maxSips
           /\ counter' = IF out.err = NoError THEN counter + 1 ELSE counter
           /\ ServiceCall("createSIP",
                          IF out.err = NoError THEN generateSipId(counter)
                          ELSE UnknownSipId, 0, out)

CreateSIPOf(requests) == CreateSIPsOf(requests, MaxSips)

CreateSIP == CreateSIPOf(Requests)

Targets == DOMAIN sipStorage

PauseSIP ==
    \E sipId \in Targets :
        /\ ServiceCall("pause", sipId, 0, pauseSIP(sipStorage, sipId))
        /\ UNCHANGED counter

UnpauseSIP ==
    \E sipId \in Targets :
        /\ ServiceCall("unpause", sipId, 0, unpauseSIP(sipStorage, sipId))
        /\ UNCHANGED counter

StopSIP ==
    \E sipId \in Targets :
        /\ ServiceCall("stop", sipId, 0, stopSIP(sipStorage, sipId))
        /\ UNCHANGED counter

ModifyStepUp ==
    \E sipId \in Targets, newStepUpPercentage \in StepUps :
        /\ ServiceCall("modify step-up", sipId, newStepUpPercentage,
                       modifyStepUp(sipStorage, sipId, newStepUpPercentage))
        /\ UNCHANGED counter

\* MockMarketPriceService::updateNAV
UpdateNAVOf(fundIds, navs) ==
    \E fundId \in fundIds, nav \in navs :
        /\ Idle
        /\ navData' = IF nav <= 0 THEN navData ELSE Put(navData, fundId, nav)
        /\ last' = Call("updateNAV", <<fundId, 0>>, nav, 0,
                        IF nav <= 0 THEN ValidationException("NAV must be positive")
                        ELSE NoError)
        /\ UNCHANGED <<sipStorage, userIndex, fundIndex, txnStorage, counter, autoComplete, completionHandler, processedCallbacks,
                       pendingPayments, inflight>>

UpdateNAV == UpdateNAVOf({"f2"}, NavValues)

\* SIPScheduler::executeDueSIPs, the whole pass, while the ledger stays
\* within maxTxns transactions.
ExecuteDueSIPsWithin(dates, maxTxns) ==
    \E asOfDate \in dates :
        LET due == getDueSIPs(sipStorage, asOfDate) IN
        \E dueSIPs \in Orders(due),
           results \in [{sip.id : sip \in due} -> {"SUCCESS", "FAILURE"}] :
            LET st == executeLoop(Now, dueSIPs, 1, asOfDate, results) IN
            /\ Idle
            /\ Cardinality(DOMAIN st.txns) <= maxTxns
            /\ Commit(st)
            /\ last' = Call("executeDueSIPs", <<"", 0>>, asOfDate, st.processed, NoError)
            /\ UNCHANGED <<navData, autoComplete, processedCallbacks, inflight>>

ExecuteDueSIPsAt(dates) == ExecuteDueSIPsWithin(dates, MaxTxns)

ExecuteDueSIPs == ExecuteDueSIPsAt(AsOfDates)

\* MockPaymentService::completePayment on a payment it holds.
CompletePayment ==
    \E transactionId \in DOMAIN pendingPayments, status \in PaymentStatuses :
        /\ Idle
        /\ Commit(completePayment(Now, transactionId, status))
        /\ last' = Call("completePayment", transactionId, status, 0, NoError)
        /\ UNCHANGED <<navData, autoComplete, processedCallbacks, inflight>>

\* The payment collaborator invokes once more the callback of a payment it
\* has completed (IPaymentService lets it keep and re-invoke the closure).
RedeliverCallback ==
    \E transactionId \in DOMAIN txnStorage \ DOMAIN pendingPayments,
       status \in {"SUCCESS", "FAILURE"} :
        /\ Idle
        /\ Commit(handlePaymentCallback(Now, transactionId,
                                        txnStorage[transactionId].sipId, status))
        /\ last' = Call("redeliver", transactionId, status, 0, NoError)
        /\ UNCHANGED <<navData, autoComplete, processedCallbacks, inflight>>

Next ==
    \/ CreateSIP
    \/ PauseSIP
    \/ UnpauseSIP
    \/ StopSIP
    \/ ModifyStepUp
    \/ UpdateNAV
    \/ ExecuteDueSIPs
    \/ CompletePayment
    \/ RedeliverCallback

Spec == Init /\ [][Next]_vars

(* -------------- the payment callback, one step at a time --------------- *)
\* Two invocations of a transaction's callback may be in progress at once;
\* each is at one of the statements of SIPScheduler::handlePaymentCallback
\* and of the two SIP service calls it makes, and holds its local copies.
Deliveries == {"d1", "d2"}

Invocation(pc, transactionId, sipId, status, txn, sip) ==
    [pc |-> pc, transactionId |-> transactionId, sipId |-> sipId,
     status |-> status, txn |-> txn, sip |-> sip]

NoTxn == Transaction(<<"", 0>>, <<"", 0>>, 0, 0, 0, "INSTALLMENT")
NoSip == SIP(<<"", 0>>, "", "", 0, "MONTHLY", 0, 0)

Proceed(d, inv) ==
    inflight' = [k \in DOMAIN inflight \cup {d} |-> IF k = d THEN inv ELSE inflight[k]]

Return(d) ==
    inflight' = [k \in DOMAIN inflight \ {d} |-> inflight[k]]

StepCall == Call("callback step", <<"", 0>>, 0, 0, NoError)

\* The collaborator invokes the callback bound to a transaction;
\* completePayment erases the pending entry before it does.
BeginCallback ==
    \E d \in Deliveries \ DOMAIN inflight, transactionId \in DOMAIN txnStorage,
       status \in {"SUCCESS", "FAILURE"} :
        /\ Proceed(d, Invocation("getById", transactionId,
                                 txnStorage[transactionId].sipId, status, NoTxn, NoSip))
        /\ pendingPayments' = [k \in DOMAIN pendingPayments \ {transactionId} |->
                                   pendingPayments[k]]
        /\ last' = Call("callback", transactionId, status, 0, NoError)
        /\ UNCHANGED <<sipStorage, userIndex, fundIndex, txnStorage, counter, navData,
                       autoComplete, completionHandler, processedCallbacks>>

\* auto txn = transactionRepository->getById(transactionId); if (!txn) return;
CallbackGetById ==
    \E d \in DOMAIN inflight :
        LET inv == inflight[d] IN
        /\ inv.pc = "getById"
        /\ IF inv.transactionId \in DOMAIN txnStorage
           THEN Proceed(d, [inv EXCEPT !.pc = "check",
                                       !.txn = txnStorage[inv.transactionId]])
           ELSE Return(d)
        /\ last' = StepCall
        /\ UNCHANGED <<sipStorage, userIndex, fundIndex, txnStorage, counter, navData, autoComplete, completionHandler, processedCallbacks,
                       pendingPayments>>

\* if (txn->isCallbackProcessed()) return;
CallbackCheck ==
    \E d \in DOMAIN inflight :
        LET inv == inflight[d] IN
        /\ inv.pc = "check"
        /\ IF inv.txn.callbackProcessed
           THEN Return(d)
           ELSE Proceed(d, [inv EXCEPT !.pc = "update"])
        /\ last' = StepCall
        /\ UNCHANGED <<sipStorage, userIndex, fundIndex, txnStorage, counter, navData, autoComplete, completionHandler, processedCallbacks,
                       pendingPayments>>

\* txn->setStatus(status); txn->setCallbackProcessed(true); update(*txn);
CallbackUpdate ==
    \E d \in DOMAIN inflight :
        LET inv == inflight[d]
            updated == [inv.txn EXCEPT !.status = inv.status,
                                       !.callbackProcessed = TRUE]
        IN
        /\ inv.pc = "update"
        /\ txnStorage' = RepoUpdate(txnStorage, updated)
        /\ IF inv.status = "SUCCESS"
           THEN Proceed(d, [inv EXCEPT !.pc = "countRead", !.txn = updated])
           ELSE Return(d)
        /\ last' = StepCall
        /\ UNCHANGED <<sipStorage, userIndex, fundIndex, counter, navData, autoComplete, completionHandler, processedCallbacks, pendingPayments>>

\* onPaymentSuccess: validateSIPExists(sipId, sip);
CallbackCountRead ==
    \E d \in DOMAIN inflight :
        LET inv == inflight[d] IN
        /\ inv.pc = "countRead"
        /\ IF inv.sipId \in DOMAIN sipStorage
           THEN Proceed(d, [inv EXCEPT !.pc = "countWrite",
                                       !.sip = sipStorage[inv.sipId]])
           ELSE Return(d)
        /\ last' = StepCall
        /\ UNCHANGED <<sipStorage, userIndex, fundIndex, txnStorage, counter, navData, autoComplete, completionHandler, processedCallbacks,
                       pendingPayments>>

\* onPaymentSuccess: sip.incrementInstallmentCount(); sipRepository->update(sip);
CallbackCountWrite ==
    \E d \in DOMAIN inflight :
        LET inv == inflight[d] IN
        /\ inv.pc = "countWrite"
        /\ sipStorage' = RepoUpdate(sipStorage,
               [inv.sip EXCEPT !.installmentCount = inv.sip.installmentCount + 1])
        /\ IndexesFollow
        /\ Proceed(d, [inv EXCEPT !.pc = "dateRead"])
        /\ last' = StepCall
        /\ UNCHANGED <<txnStorage, counter, navData, autoComplete, completionHandler, processedCallbacks, pendingPayments>>

\* updateNextExecutionDate: validateSIPExists(sipId, sip);
CallbackDateRead ==
    \E d \in DOMAIN inflight :
        LET inv == inflight[d] IN
        /\ inv.pc = "dateRead"
        /\ IF inv.sipId \in DOMAIN sipStorage
           THEN Proceed(d, [inv EXCEPT !.pc = "dateWrite",
                                       !.sip = sipStorage[inv.sipId]])
           ELSE Return(d)
        /\ last' = StepCall
        /\ UNCHANGED <<sipStorage, userIndex, fundIndex, txnStorage, counter, navData, autoComplete, completionHandler, processedCallbacks,
                       pendingPayments>>

\* updateNextExecutionDate: sip.setNextExecutionDate(nextDate); update(sip);
CallbackDateWrite ==
    \E d \in DOMAIN inflight :
        LET inv == inflight[d]
            nextDate == calculateNextExecutionDate(inv.sip.nextExecutionDate,
                                                   inv.sip.frequency)
        IN
        /\ inv.pc = "dateWrite"
        /\ sipStorage' = RepoUpdate(sipStorage,
               [inv.sip EXCEPT !.nextExecutionDate = nextDate])
        /\ IndexesFollow
        /\ Return(d)
        /\ last' = StepCall
        /\ UNCHANGED <<txnStorage, counter, navData, autoComplete, completionHandler, processedCallbacks, pendingPayments>>

\* SIPs are created and passes run while no callback is in progress; the
\* payment service defers (autoComplete false) or completes at once.
NextConc ==
    \/ CreateSIPOf({Request("u1", "f1", 1000, "MONTHLY", 30, 10)})
    \/ ExecuteDueSIPsAt({130})
    \/ BeginCallback
    \/ CallbackGetById
    \/ CallbackCheck
    \/ CallbackUpdate
    \/ CallbackCountRead
    \/ CallbackCountWrite
    \/ CallbackDateRead
    \/ CallbackDateWrite

SpecConc == Init /\ [][NextConc]_vars


(* ----------------------- passes over several SIPs ---------------------- *)
\* Two SIPs, one of a fund the price service holds a NAV for and one of a
\* fund it may not know yet.
NextBatch ==
    \/ CreateSIPsOf({Request("u1", "f1", 1000, "MONTHLY", 30, 10),
                     Request("u1", "f2", 1000, "WEEKLY", 30, 0)}, MaxBatchSips)
    \/ PauseSIP
    \/ UpdateNAV
    \/ ExecuteDueSIPsAt({31})
    \/ CompletePayment

SpecBatch == Init /\ [][NextBatch]_vars

(* ------------------------ the schedule of one SIP ---------------------- *)
\* A SIP of any frequency created with any start date of the range, and its
\* schedule advanced period by period while it stays inside the calendar.
StartDays == 0..MaxStartDay

UpdateNextExecutionDate ==
    \E sipId \in DOMAIN sipStorage :
        /\ sipStorage[sipId].nextExecutionDate <= MaxCalendarDay
        /\ ServiceCall("updateNextExecutionDate", sipId, 0,
                       updateNextExecutionDate(sipStorage, sipId))
        /\ UNCHANGED counter

CreateScheduledSIP ==
    /\ sipStorage = Empty
    /\ CreateSIPsOf({Request("u1", "f1", 1000, frequency, startDate, 0) :
                        frequency \in Frequencies, startDate \in StartDays}, MaxSips)

NextCalendar ==
    \/ CreateScheduledSIP
    \/ UpdateNextExecutionDate

SpecCalendar == Init /\ [][NextCalendar]_vars

(* ------------------- the scheduler pass, one SIP at a time ------------- *)
\* executeDueSIPs takes its vector of due SIPs once and then runs executeSIP
\* on each copy; calls of the SIP service by another caller can take effect
\* between two of its iterations.
PassFrame(dueSIPs, i, asOfDate, processedCount) ==
    [dueSIPs |-> dueSIPs, i |-> i, asOfDate |-> asOfDate,
     processedCount |-> processedCount]

InPass == "pass" \in DOMAIN inflight

\* std::vector<SIP> dueSIPs = sipRepository->getDueSIPs(asOfDate);
PassBegin ==
    \E asOfDate \in AsOfDates :
        \E dueSIPs \in Orders(getDueSIPs(sipStorage, asOfDate)) :
            /\ Idle
            /\ inflight' = [k \in {"pass"} |-> PassFrame(dueSIPs, 1, asOfDate, 0)]
            /\ last' = Call("getDueSIPs", <<"", 0>>, asOfDate, Len(dueSIPs), NoError)
            /\ UNCHANGED <<sipStorage, userIndex, fundIndex, txnStorage, counter, navData, autoComplete, completionHandler, processedCallbacks,
                           pendingPayments>>

\* One iteration of the loop: try { executeSIP(sip, asOfDate); processedCount++; }
PassExecuteSIP ==
    \E status \in {"SUCCESS", "FAILURE"} :
        /\ InPass
        /\ LET frame == inflight["pass"] IN
           /\ frame.i <= Len(frame.dueSIPs)
           /\ Cardinality(DOMAIN txnStorage) < MaxTxns
           /\ LET sip == frame.dueSIPs[frame.i]
                  run == executeSIP(Now, sip, frame.asOfDate, status)
              IN /\ Commit(run.st)
                 /\ inflight' = [k \in {"pass"} |->
                        PassFrame(frame.dueSIPs, frame.i + 1, frame.asOfDate,
                                  IF run.err = NoError THEN frame.processedCount + 1
                                  ELSE frame.processedCount)]
                 /\ last' = Call("executeSIP", sip.id, frame.asOfDate, 0, run.err)
        /\ UNCHANGED <<navData, autoComplete, processedCallbacks>>

\* return processedCount;
PassEnd ==
    /\ InPass
    /\ LET frame == inflight["pass"] IN
       /\ frame.i > Len(frame.dueSIPs)
       /\ last' = Call("executeDueSIPs", <<"", 0>>, frame.asOfDate,
                       frame.processedCount, NoError)
    /\ inflight' = Empty
    /\ UNCHANGED <<sipStorage, userIndex, fundIndex, txnStorage, counter, navData, autoComplete, completionHandler, processedCallbacks,
                   pendingPayments>>

\* pauseSIP or stopSIP called by another caller while the pass is running.
LifecycleDuringPass ==
    \E sipId \in DOMAIN sipStorage :
        \E call \in {[op |-> "pause", out |-> pauseSIP(sipStorage, sipId)],
                     [op |-> "stop", out |-> stopSIP(sipStorage, sipId)]} :
            /\ InPass
            /\ sipStorage' = call.out.storage
            /\ IndexesFollow
            /\ last' = Call(call.op, sipId, 0, 0, call.out.err)
            /\ UNCHANGED <<txnStorage, counter, navData, autoComplete, completionHandler, processedCallbacks,
                           pendingPayments, inflight>>

NextPass ==
    \/ CreateSIPOf({Request("u1", "f1", 1000, "MONTHLY", 30, 10),
                    Request("u1", "f2", 1000, "WEEKLY", 30, 0)})
    \/ PauseSIP
    \/ UnpauseSIP
    \/ StopSIP
    \/ CompletePayment
    \/ PassBegin
    \/ PassExecuteSIP
    \/ PassEnd
    \/ LifecycleDuringPass

SpecPass == Init /\ [][NextPass]_vars

(* ------------- one pass, paid at once or paid afterwards --------------- *)
\* What is kept of a pass while its payments are outstanding: the stores it
\* started from, the due SIPs in the order it took them, its date and the
\* outcome each SIP's payment resolves to.
PassRecord(before, dueSIPs, asOfDate, results) ==
    [before |-> before, dueSIPs |-> dueSIPs, asOfDate |-> asOfDate,
     results |-> results]

Recorded == "record" \in DOMAIN inflight

\* SIPScheduler::executeDueSIPs, the whole pass, with its record kept.
ExecuteRecordedPass ==
    \E asOfDate \in {31} :
        LET due == getDueSIPs(sipStorage, asOfDate) IN
        \E dueSIPs \in Orders(due),
           results \in [{sip.id : sip \in due} -> {"SUCCESS", "FAILURE"}] :
            LET st == executeLoop(Now, dueSIPs, 1, asOfDate, results) IN
            /\ Idle
            /\ Cardinality(DOMAIN st.txns) <= MaxTxns
            /\ Commit(st)
            /\ inflight' = [k \in {"record"} |->
                               PassRecord(Now, dueSIPs, asOfDate, results)]
            /\ last' = Call("executeDueSIPs", <<"", 0>>, asOfDate, st.processed, NoError)
            /\ UNCHANGED <<navData, autoComplete, processedCallbacks>>

\* MockPaymentService::completePayment on one of the payments the recorded
\* pass left pending, with the outcome that payment resolves to.
CompleteRecordedPayment ==
    \E transactionId \in DOMAIN pendingPayments :
        LET status == inflight["record"].results[pendingPayments[transactionId].callback]
        IN /\ Recorded
           /\ Commit(completePayment(Now, transactionId, status))
           /\ last' = Call("completePayment", transactionId, status, 0, NoError)
           /\ UNCHANGED <<navData, autoComplete, processedCallbacks, inflight>>

\* Every payment of the recorded pass is settled: the system is idle again.
SettleRecordedPass ==
    /\ Recorded
    /\ pendingPayments = Empty
    /\ inflight' = Empty
    /\ last' = Call("settled", <<"", 0>>, 0, 0, NoError)
    /\ UNCHANGED <<sipStorage, userIndex, fundIndex, txnStorage, counter, navData, autoComplete, completionHandler, processedCallbacks,
                   pendingPayments>>

NextModes ==
    \/ CreateSIPsOf({Request("u1", "f1", 1000, "MONTHLY", 30, 10),
                     Request("u1", "f2", 1000, "WEEKLY", 30, 0)}, MaxBatchSips)
    \/ PauseSIP
    \/ UnpauseSIP
    \/ UpdateNAV
    \/ ExecuteRecordedPass
    \/ CompleteRecordedPayment
    \/ SettleRecordedPass

SpecModes == Init /\ [][NextModes]_vars

(* ------------------------ a SIP tried again and again ------------------ *)
\* One SIP with a step-up, passes at two dates, payments completed at once
\* or later, and the SIP paused and resumed in between.
NextRetry ==
    \/ CreateSIPOf({Request("u1", "f1", 1000, "MONTHLY", 30, 10)})
    \/ PauseSIP
    \/ UnpauseSIP
    \/ ExecuteDueSIPsWithin(AsOfDates, MaxRetryTxns)
    \/ CompletePayment
    \/ RedeliverCallback

SpecRetry == Init /\ [][NextRetry]_vars

(* ----------------- callbacks that name no stored transaction ----------- *)
\* The payment collaborator invokes a closure that executeSIP bound to a SIP
\* with a transaction id the ledger does not hold: one never issued or the
\* one the generator will issue next.
DeliverUnknownTransaction ==
    \E transactionId \in {generateTransactionId(0), generateTransactionId(counter)}
                            \ DOMAIN txnStorage,
       sipId \in {txnStorage[t].sipId : t \in DOMAIN txnStorage},
       status \in {"SUCCESS", "FAILURE"} :
        /\ Idle
        /\ Commit(handlePaymentCallback(Now, transactionId, sipId, status))
        /\ last' = Call("unknown callback", transactionId, status, 0, NoError)
        /\ UNCHANGED <<navData, autoComplete, processedCallbacks, inflight>>

NextUnknown ==
    \/ CreateSIPOf({Request("u1", "f1", 1000, "MONTHLY", 30, 10),
                    Request("u1", "f1", 1000, "WEEKLY", 30, 0)})
    \/ PauseSIP
    \/ UnpauseSIP
    \/ StopSIP
    \/ ExecuteDueSIPs
    \/ CompletePayment
    \/ DeliverUnknownTransaction

SpecUnknown == Init /\ [][NextUnknown]_vars

(* --------------------------- prices that move -------------------------- *)
\* MockMarketPriceService::simulateMarketMovement: every stored NAV is
\* multiplied by 1 + percentage; main's menu takes any percentage.
simulateMarketMovement(navs, percentage) ==
    [fundId \in DOMAIN navs |-> (navs[fundId] * (100 + percentage)) \div 100]

SimulateMarketMovement ==
    \E percentage \in {-200, -100, 10} :
        LET moved == simulateMarketMovement(navData, percentage) IN
        /\ Idle
        /\ \A fundId \in DOMAIN moved :
              moved[fundId] <= MaxNav /\ -moved[fundId] <= MaxNav
        /\ navData' = moved
        /\ last' = Call("simulateMarketMovement", <<"", 0>>, percentage, 0, NoError)
        /\ UNCHANGED <<sipStorage, userIndex, fundIndex, txnStorage, counter, autoComplete, completionHandler, processedCallbacks,
                       pendingPayments, inflight>>

NextPrices ==
    \/ CreateSIPOf({Request("u1", "f1", 1000, "MONTHLY", 30, 10)})
    \/ SimulateMarketMovement
    \/ ExecuteDueSIPs
    \/ CompletePayment

SpecPrices == Init /\ [][NextPrices]_vars

(* ------------------------ the installment amount ----------------------- *)
\* SIPScheduler::calculateSteppedUpAmount applied to a base amount, a
\* step-up percentage and an installment number.
BaseAmounts == {100, 200, 500, 1000}
StepUpPercentages == {-5, 0, 1, 5, 10, 20}
InstallmentNumbers == 0..MaxInstallment

SteppedUpArguments(baseAmount, stepUpPercentage, installmentNumber) ==
    [baseAmount |-> baseAmount, stepUpPercentage |-> stepUpPercentage,
     installmentNumber |-> installmentNumber]

CalculateSteppedUpAmount ==
    \E baseAmount \in BaseAmounts, stepUpPercentage \in StepUpPercentages,
       installmentNumber \in InstallmentNumbers :
        /\ last' = Call("calculateSteppedUpAmount", <<"", 0>>,
                        SteppedUpArguments(baseAmount, stepUpPercentage,
                                           installmentNumber),
                        calculateSteppedUpAmount(baseAmount, stepUpPercentage,
                                                 installmentNumber),
                        NoError)
        /\ UNCHANGED <<sipStorage, userIndex, fundIndex, txnStorage, counter, navData, autoComplete, completionHandler, processedCallbacks,
                       pendingPayments, inflight>>

NextStepUp == CalculateSteppedUpAmount

SpecStepUp == Init /\ [][NextStepUp]_vars

(* ---------------------------- portfolio service ----------------------- *)
\* InMemoryTransactionRepository::getBySipId / getSuccessfulBySipId
getBySipId(txns, sipId) ==
    {txns[t] : t \in {i \in DOMAIN txns : txns[i].sipId = sipId}}

\* getSuccessfulBySipId that keeps every transaction that has not failed.
getSuccessfulBySipIdNotFailed(txns, sipId) ==
    {t \in getBySipId(txns, sipId) : t.status # "FAILURE"}

getSuccessfulBySipId(txns, sipId) ==
    {t \in getBySipId(txns, sipId) : t.status = "SUCCESS"}

\* getByUserId that returns the SIPs of every user.
getByUserIdOfAnyone(storage, index, userId) ==
    {storage[k] : k \in DOMAIN storage}

\* InMemorySIPRepository::getByUserId: the stored SIPs of the ids that
\* userIndex holds for the user.
getByUserId(storage, index, userId) ==
    {storage[id] : id \in IdsUnder(index, userId) \cap DOMAIN storage}

\* InMemorySIPRepository::getByFundId: the same over fundIndex.
getByFundId(storage, index, fundId) ==
    {storage[id] : id \in IdsUnder(index, fundId) \cap DOMAIN storage}

\* InMemorySIPRepository::getByUserIdAndState
getByUserIdAndState(storage, index, userId, state) ==
    {sip \in getByUserId(storage, index, userId) : sip.state = state}

\* MockMarketPriceService::getCurrentNAV (price fluctuation off, as in main).
getCurrentNAV(navs, fundId) ==
    IF fundId \in DOMAIN navs
    THEN [ret |-> navs[fundId], err |-> NoError]
    ELSE [ret |-> 0, err |-> FundNotFoundException(fundId)]

RECURSIVE SumField(_, _)
\* total += x.field for every x of a vector.
SumField(S, field) ==
    IF S = {} THEN 0
    ELSE LET x == CHOOSE y \in S : TRUE
         IN x[field] + SumField(S \ {x}, field)

\* units * nav, units carrying three decimal places.
Value(units, nav) == (units * nav) \div 1000

\* (gainLoss / totalInvested) * 100.0, carried with two decimal places.
Percentage(gainLoss, totalInvested) ==
    (gainLoss * 10000 + totalInvested \div 2) \div totalInvested

\* SIPServiceImpl::calculateSteppedUpAmount
SIPService_calculateSteppedUpAmount(baseAmount, stepUpPercentage, installmentNumber) ==
    IF stepUpPercentage <= 0 \/ installmentNumber <= 1
    THEN baseAmount
    ELSE (baseAmount * PowScaled(stepUpPercentage, installmentNumber - 1)) \div 10000

\* SIPServiceImpl::calculateCurrentInstallmentAmount
calculateCurrentInstallmentAmount(storage, sipId) ==
    IF sipId \notin DOMAIN storage
    THEN [ret |-> 0, err |-> SIPNotFoundException(sipId)]
    ELSE LET sip == storage[sipId]
         IN [ret |-> SIPService_calculateSteppedUpAmount(
                         sip.baseAmount, sip.stepUpPercentage, sip.installmentCount + 1),
             err |-> NoError]

\* The valuation's formula with the installment number as the exponent.
Portfolio_calculateSteppedUpAmountOneMore(baseAmount, stepUpPercentage, installmentNumber) ==
    IF stepUpPercentage <= 0 \/ installmentNumber <= 1
    THEN baseAmount
    ELSE (baseAmount * PowScaled(stepUpPercentage, installmentNumber)) \div 10000

\* PortfolioServiceImpl::calculateSteppedUpAmount
Portfolio_calculateSteppedUpAmount(baseAmount, stepUpPercentage, installmentNumber) ==
    IF stepUpPercentage <= 0 \/ installmentNumber <= 1
    THEN baseAmount
    ELSE (baseAmount * PowScaled(stepUpPercentage, installmentNumber - 1)) \div 10000

\* buildPortfolioItem that takes the gain for the percentage of the value.
buildPortfolioItemOfValue(sip) ==
    LET nav == getCurrentNAV(navData, sip.fundId)
        currentNav == IF nav.err = NoError THEN nav.ret ELSE 0
        transactions == getSuccessfulBySipId(txnStorage, sip.id)
        totalInvested == SumField(transactions, "amount")
        totalUnits == SumField(transactions, "units")
        currentValue == Value(totalUnits, currentNav)
        gainLoss == currentValue - totalInvested
        nextInstallment == sip.installmentCount + 1
    IN [sip |-> sip,
        fundName |-> IF sip.fundId \in FundIds THEN sip.fundId ELSE "Unknown Fund",
        currentNav |-> currentNav,
        totalInvested |-> totalInvested,
        totalUnits |-> totalUnits,
        currentValue |-> currentValue,
        gainLoss |-> gainLoss,
        gainLossPercentage |-> IF currentValue > 0
                               THEN Percentage(gainLoss, currentValue) ELSE 0,
        currentInstallmentAmount |-> Portfolio_calculateSteppedUpAmount(
            sip.baseAmount, sip.stepUpPercentage, nextInstallment),
        nextInstallmentAmount |-> Portfolio_calculateSteppedUpAmount(
            sip.baseAmount, sip.stepUpPercentage, nextInstallment + 1)]

\* PortfolioServiceImpl::buildPortfolioItem
buildPortfolioItem(sip) ==
    LET nav == getCurrentNAV(navData, sip.fundId)
        currentNav == IF nav.err = NoError THEN nav.ret ELSE 0
        transactions == getSuccessfulBySipId(txnStorage, sip.id)
        totalInvested == SumField(transactions, "amount")
        totalUnits == SumField(transactions, "units")
        currentValue == Value(totalUnits, currentNav)
        gainLoss == currentValue - totalInvested
        nextInstallment == sip.installmentCount + 1
    IN [sip |-> sip,
        fundName |-> IF sip.fundId \in FundIds THEN sip.fundId ELSE "Unknown Fund",
        currentNav |-> currentNav,
        totalInvested |-> totalInvested,
        totalUnits |-> totalUnits,
        currentValue |-> currentValue,
        gainLoss |-> gainLoss,
        gainLossPercentage |-> IF totalInvested > 0
                               THEN Percentage(gainLoss, totalInvested) ELSE 0,
        currentInstallmentAmount |-> Portfolio_calculateSteppedUpAmount(
            sip.baseAmount, sip.stepUpPercentage, nextInstallment),
        nextInstallmentAmount |-> Portfolio_calculateSteppedUpAmount(
            sip.baseAmount, sip.stepUpPercentage, nextInstallment + 1)]

\* PortfolioServiceImpl::getUserPortfolio
getUserPortfolio(userId) ==
    {buildPortfolioItem(sip) : sip \in getByUserId(sipStorage, userIndex, userId)}

\* PortfolioServiceImpl::getPortfolioSummary
getPortfolioSummary(userId) ==
    LET portfolio == getUserPortfolio(userId)
        totalInvested == SumField(portfolio, "totalInvested")
        totalCurrentValue == SumField(portfolio, "currentValue")
        gainLoss == totalCurrentValue - totalInvested
        CountOf(state) == Cardinality({item \in portfolio : item.sip.state = state})
    IN [totalInvested |-> totalInvested,
        totalCurrentValue |-> totalCurrentValue,
        totalUnits |-> SumField(portfolio, "totalUnits"),
        gainLoss |-> gainLoss,
        gainLossPercentage |-> IF totalInvested > 0
                               THEN Percentage(gainLoss, totalInvested) ELSE 0,
        activeSIPCount |-> CountOf("ACTIVE"),
        pausedSIPCount |-> CountOf("PAUSED"),
        stoppedSIPCount |-> CountOf("STOPPED")]

\* PortfolioServiceImpl::filterByState
filterByState(userId, state) ==
    {buildPortfolioItem(sip) : sip \in getByUserIdAndState(sipStorage, userIndex, userId, state)}

\* PortfolioServiceImpl::getTransactionHistory
getTransactionHistory(sipId) == getBySipId(txnStorage, sipId)

\* PortfolioServiceImpl::calculateTotalInvested / calculateTotalUnits
calculateTotalInvested(sipId) ==
    SumField(getSuccessfulBySipId(txnStorage, sipId), "amount")

calculateTotalUnits(sipId) ==
    SumField(getSuccessfulBySipId(txnStorage, sipId), "units")

\* PortfolioServiceImpl::calculateCurrentValue
calculateCurrentValue(sipId) ==
    IF sipId \notin DOMAIN sipStorage
    THEN [ret |-> 0, err |-> SIPNotFoundException(sipId)]
    ELSE LET nav == getCurrentNAV(navData, sipStorage[sipId].fundId)
         IN IF nav.err # NoError THEN [ret |-> 0, err |-> nav.err]
            ELSE [ret |-> Value(calculateTotalUnits(sipId), nav.ret), err |-> NoError]

\* A query that runs the due SIPs before it answers.
QueryDrivingExecution(op, id, arg, ret, err) ==
    \E dueSIPs \in Orders(getDueSIPs(sipStorage, 60)) :
        LET st == executeLoop(Now, dueSIPs, 1, 60,
                              [s \in DOMAIN sipStorage |-> "SUCCESS"])
        IN /\ Cardinality(DOMAIN st.txns) <= MaxPortfolioTxns
           /\ Commit(st)
           /\ last' = Call(op, id, arg, ret, err)
           /\ UNCHANGED <<navData, autoComplete, processedCallbacks, inflight>>

\* A query of the portfolio service: its result is all it leaves behind.
Query(op, id, arg, ret, err) ==
    /\ last' = Call(op, id, arg, ret, err)
    /\ UNCHANGED <<sipStorage, userIndex, fundIndex, txnStorage, counter, navData, autoComplete, completionHandler, processedCallbacks,
                   pendingPayments, inflight>>

QueriedSips == DOMAIN sipStorage

GetUserPortfolio ==
    \E userId \in UserIds :
        Query("getUserPortfolio", <<userId, 0>>, 0, getUserPortfolio(userId), NoError)

GetPortfolioSummary ==
    \E userId \in UserIds :
        Query("getPortfolioSummary", <<userId, 0>>, 0, getPortfolioSummary(userId),
              NoError)

FilterByState ==
    \E userId \in UserIds, state \in {"ACTIVE", "PAUSED"} :
        Query("filterByState", <<userId, 0>>, state, filterByState(userId, state),
              NoError)

GetTransactionHistory ==
    \E sipId \in QueriedSips :
        Query("getTransactionHistory", sipId, 0, getTransactionHistory(sipId), NoError)

CalculateTotalInvested ==
    \E sipId \in QueriedSips :
        Query("calculateTotalInvested", sipId, 0, calculateTotalInvested(sipId), NoError)

CalculateTotalUnits ==
    \E sipId \in QueriedSips :
        Query("calculateTotalUnits", sipId, 0, calculateTotalUnits(sipId), NoError)

CalculateCurrentValue ==
    \E sipId \in QueriedSips :
        LET out == calculateCurrentValue(sipId)
        IN Query("calculateCurrentValue", sipId, 0, out.ret, out.err)

PortfolioQueries ==
    {"getUserPortfolio", "getPortfolioSummary", "filterByState",
     "getTransactionHistory", "calculateTotalInvested", "calculateTotalUnits",
     "calculateCurrentValue"}

\* Two SIPs of one user in one fund, created before the first pass; the NAV
\* rises between passes and the portfolio is queried at any point.
NextPortfolio ==
    \/ /\ txnStorage = Empty
       /\ CreateSIPsOf({Request("u1", "f1", 1000, "MONTHLY", 30, 10),
                        Request("u1", "f1", 500, "QUARTERLY", 45, 0)}, MaxBatchSips)
    \/ UpdateNAVOf({"f1"}, {navData["f1"] + 10} \ {130})
    \/ ExecuteDueSIPsWithin({60}, MaxPortfolioTxns)
    \/ CompletePayment
    \/ GetUserPortfolio
    \/ GetPortfolioSummary
    \/ FilterByState
    \/ GetTransactionHistory
    \/ CalculateTotalInvested
    \/ CalculateTotalUnits
    \/ CalculateCurrentValue

SpecPortfolio == Init /\ [][NextPortfolio]_vars

(* ------------------------------ the price oracle ----------------------- *)
\* MockMarketPriceService::setNAVs: every pair given is stored as it is.
setNAVs(stored, navs) ==
    [fundId \in DOMAIN stored \cup DOMAIN navs |->
        IF fundId \in DOMAIN navs THEN navs[fundId] ELSE stored[fundId]]

\* The NAV tables handed to setNAVs: one or two funds, any double.
NavTables ==
    UNION {[funds -> {-50, 0, 50}] : funds \in {{"f1"}, {"f2"}, {"f1", "f2"}}}

SetNAVs ==
    \E navs \in NavTables :
        /\ Idle
        /\ navData' = setNAVs(navData, navs)
        /\ last' = Call("setNAVs", <<"", 0>>, navs, 0, NoError)
        /\ UNCHANGED <<sipStorage, userIndex, fundIndex, txnStorage, counter, autoComplete, completionHandler, processedCallbacks,
                       pendingPayments, inflight>>

\* MockMarketPriceService::getCurrentNAV, price fluctuation off.
GetCurrentNAV ==
    \E fundId \in FundIds \cup {UnknownFund} :
        LET out == getCurrentNAV(navData, fundId) IN
        /\ Idle
        /\ last' = Call("getCurrentNAV", <<fundId, 0>>, 0, out.ret, out.err)
        /\ UNCHANGED <<sipStorage, userIndex, fundIndex, txnStorage, counter, navData, autoComplete, completionHandler, processedCallbacks,
                       pendingPayments, inflight>>

NextOracle ==
    \/ UpdateNAVOf(FundIds, {0, 50, 100})
    \/ SetNAVs
    \/ SimulateMarketMovement
    \/ GetCurrentNAV

SpecOracle == Init /\ [][NextOracle]_vars

(* --------------------------- the user's summary ------------------------ *)
\* Three SIPs in one fund, two of one user and between them one of another,
\* paid, paused and stopped, and each user's portfolio summary read at any
\* point.
SummaryRequests ==
    <<Request("u1", "f1", 1000, "MONTHLY", 30, 10),
      Request("u2", "f1", 200, "MONTHLY", 30, 0),
      Request("u1", "f1", 500, "MONTHLY", 30, 0)>>

NextSummary ==
    \/ /\ counter <= Len(SummaryRequests)
       /\ CreateSIPsOf({SummaryRequests[counter]}, MaxSummarySips)
    \/ /\ txnStorage # Empty /\ pendingPayments = Empty
       /\ PauseSIP
    \/ /\ txnStorage # Empty /\ pendingPayments = Empty
       /\ StopSIP
    \/ /\ Cardinality(DOMAIN sipStorage) = Len(SummaryRequests)
       /\ ExecuteDueSIPsWithin({31}, MaxSummaryTxns)
    \/ CompletePayment
    \/ GetPortfolioSummary

SpecSummary == Init /\ [][NextSummary]_vars

(* ----------------- passes repeated until nothing is due ---------------- *)
\* The scheduler is run again and again for one date and every payment it
\* initiates is reported SUCCESS, at once or later.  The first SIP is in a
\* fund with a NAV, the second in a fund the price oracle does not know.
LiveDate == 60

LiveRequests ==
    <<Request("u1", "f1", 1000, "MONTHLY", 30, 10),
      Request("u1", "f2", 1000, "WEEKLY", 30, 0)>>

LiveSips == {generateSipId(n) : n \in 1..Len(LiveRequests)}

\* The SIPs are created first, in this order.
CreateLiveSIP ==
    /\ counter <= Len(LiveRequests)
    /\ CreateSIPsOf({LiveRequests[counter]}, Len(LiveRequests))

\* SIPScheduler::executeDueSIPs, the whole pass, every payment that is
\* completed inside it being reported SUCCESS.
ExecuteDueSIPsPaid ==
    LET due == getDueSIPs(sipStorage, LiveDate) IN
    \E dueSIPs \in Orders(due) :
        LET st == executeLoop(Now, dueSIPs, 1, LiveDate,
                              [sipId \in {sip.id : sip \in due} |-> "SUCCESS"])
        IN /\ Idle
           /\ Cardinality(DOMAIN st.txns) <= MaxLiveTxns
           /\ Commit(st)
           /\ last' = Call("executeDueSIPs", <<"", 0>>, LiveDate, st.processed, NoError)
           /\ UNCHANGED <<navData, autoComplete, processedCallbacks, inflight>>

\* MockPaymentService::completePayment reporting SUCCESS for a payment held.
ReportSuccess ==
    \E transactionId \in DOMAIN pendingPayments :
        /\ Idle
        /\ Commit(completePayment(Now, transactionId, "SUCCESS"))
        /\ last' = Call("completePayment", transactionId, "SUCCESS", 0, NoError)
        /\ UNCHANGED <<navData, autoComplete, processedCallbacks, inflight>>

NextLive ==
    \/ CreateLiveSIP
    \/ PauseSIP
    \/ UnpauseSIP
    \/ ExecuteDueSIPsPaid
    \/ ReportSuccess

\* The pass keeps being invoked and every payment held is reported in the end.
SpecLive ==
    /\ Init
    /\ [][NextLive]_vars
    /\ WF_vars(ExecuteDueSIPsPaid)
    /\ WF_vars(ReportSuccess)

(* ----------------- the SIP repository called directly ------------------ *)
\* The SIPs handed to the repository: two ids, each under either user and
\* either fund.
MaxRepoSips == 2
RepoSips ==
    { SIP(generateSipId(n), userId, fundId, 1000, "MONTHLY", 30, 0) :
        n \in 1..MaxRepoSips, userId \in UserIds, fundId \in FundIds }

\* The repository as it stands.
Repo == Repository(sipStorage, userIndex, fundIndex)

RepoCall(op, id, repo) ==
    /\ Idle
    /\ sipStorage' = repo.storage
    /\ userIndex' = repo.userIndex
    /\ fundIndex' = repo.fundIndex
    /\ last' = Call(op, id, 0, 0, NoError)
    /\ UNCHANGED <<txnStorage, counter, navData, autoComplete, completionHandler, processedCallbacks,
                   pendingPayments, inflight>>

\* sipRepository->add(sip)
RepoAdd == \E sip \in RepoSips : RepoCall("add", sip.id, add(Repo, sip))

\* sipRepository->update(sip)
RepoUpdateSIP == \E sip \in RepoSips : RepoCall("update", sip.id, update(Repo, sip))

\* sipRepository->remove(id)
RepoRemove ==
    \E n \in 1..MaxRepoSips :
        RepoCall("remove", generateSipId(n), remove(Repo, generateSipId(n)))

NextRepository ==
    \/ RepoAdd
    \/ RepoUpdateSIP
    \/ RepoRemove

SpecRepository == Init /\ [][NextRepository]_vars

(* --------------------- pausing and resuming two SIPs ------------------- *)
\* Two SIPs of the fund with a NAV, both due on day 31, paused and resumed
\* between scheduler passes.
PauseCycleDate == 31
NextPauseCycle ==
    \/ CreateSIPsOf({Request("u1", "f1", 1000, "MONTHLY", 30, 10),
                     Request("u2", "f1", 1000, "WEEKLY", 30, 0)}, MaxBatchSips)
    \/ PauseSIP
    \/ UnpauseSIP
    \/ ExecuteDueSIPsAt({PauseCycleDate})
    \/ CompletePayment

SpecPauseCycle == Init /\ [][NextPauseCycle]_vars

(* ------------- the payment service with a completion handler ----------- *)
\* MockPaymentService::setPaymentCompletionHandler with a handler that
\* counts its calls.
SetPaymentCompletionHandler ==
    /\ Idle
    /\ completionHandler = NoHandler
    /\ completionHandler' = CountingHandler
    /\ last' = Call("setPaymentCompletionHandler", <<"", 0>>, 0, 0, NoError)
    /\ UNCHANGED <<sipStorage, userIndex, fundIndex, txnStorage, counter, navData,
                   autoComplete, processedCallbacks, pendingPayments, inflight>>

\* MockPaymentService::onPaymentCallback for the id of a recorded payment.
OnPaymentCallback ==
    \E transactionId \in DOMAIN txnStorage, status \in {"SUCCESS", "FAILURE"} :
        \E after \in {onPaymentCallback(processedCallbacks, completionHandler,
                                        transactionId, status)} :
            /\ Idle
            /\ processedCallbacks' = after.processed
            /\ completionHandler' = after.handler
            /\ last' = Call("onPaymentCallback", transactionId, status, 0, NoError)
            /\ UNCHANGED <<sipStorage, userIndex, fundIndex, txnStorage, counter,
                           navData, autoComplete, pendingPayments, inflight>>

NextHandler ==
    \/ CreateSIPsOf({Request("u1", "f1", 1000, "MONTHLY", 30, 10)}, MaxSips)
    \/ SetPaymentCompletionHandler
    \/ ExecuteDueSIPsAt({31, 130})
    \/ CompletePayment
    \/ OnPaymentCallback

SpecHandler == Init /\ [][NextHandler]_vars

(* ------------------------------ properties ----------------------------- *)
SipTxns(sipId) == {t \in DOMAIN txnStorage : txnStorage[t].sipId = sipId}

SuccessfulTxns(sipId) == {t \in SipTxns(sipId) : txnStorage[t].status = "SUCCESS"}

RECURSIVE Advanced(_, _, _)
\* The date n periods after date, one calculateNextExecutionDate at a time.
Advanced(date, frequency, n) ==
    IF n <= 0 THEN date
    ELSE calculateNextExecutionDate(Advanced(date, frequency, n - 1), frequency)

\* A step that delivers a callback for a transaction already reconciled.
IsRedelivery ==
    /\ last'.op = "redeliver"
    /\ last'.id \in DOMAIN txnStorage
    /\ txnStorage[last'.id].callbackProcessed

\* C1: delivering a callback again, with any status, leaves the SIP store and
\* the ledger as the first delivery left them; each SIP's installmentCount is
\* the number of its SUCCESS transactions and its nextExecutionDate is its
\* start date advanced by exactly that many periods.
C1_Idempotent ==
    /\ [][IsRedelivery => (sipStorage' = sipStorage /\ txnStorage' = txnStorage)]_vars
    /\ [](\A s \in DOMAIN sipStorage :
            /\ sipStorage[s].installmentCount = Cardinality(SuccessfulTxns(s))
            /\ sipStorage[s].nextExecutionDate =
                   Advanced(sipStorage[s].startDate, sipStorage[s].frequency,
                            Cardinality(SuccessfulTxns(s))))

C1_Witness ==
    /\ last.op = "redeliver"
    /\ last.arg = "SUCCESS"
    /\ last.id \in DOMAIN txnStorage
    /\ txnStorage[last.id].status = "SUCCESS"
    /\ \E s \in DOMAIN sipStorage :
        /\ s = txnStorage[last.id].sipId
        /\ sipStorage[s].installmentCount = 1
        /\ sipStorage[s].nextExecutionDate > sipStorage[s].startDate

\* C2: a transaction's status changes at most once, from PENDING to SUCCESS
\* or FAILURE; once a callback has been applied, its status and its
\* callback-applied flag stay as they are, no transaction returns to PENDING,
\* and none leaves the ledger.
C2_StatusOnce ==
    [][\A t \in DOMAIN txnStorage :
        /\ t \in DOMAIN txnStorage'
        /\ txnStorage[t].callbackProcessed =>
              /\ txnStorage'[t].status = txnStorage[t].status
              /\ txnStorage'[t].callbackProcessed
        /\ txnStorage'[t].status # txnStorage[t].status =>
              /\ txnStorage[t].status = "PENDING"
              /\ txnStorage'[t].status \in {"SUCCESS", "FAILURE"}]_vars

C2_Witness ==
    /\ last.op = "redeliver"
    /\ last.arg = "FAILURE"
    /\ last.id \in DOMAIN txnStorage
    /\ txnStorage[last.id].status = "SUCCESS"
    /\ txnStorage[last.id].callbackProcessed

\* C3: with two deliveries of a transaction's callback interleaved statement
\* by statement, each transaction still counts at most once: a SIP's
\* installmentCount is at most the number of its transactions and its
\* nextExecutionDate at most that many periods after its start date.
C3_AppliedAtMostOnce ==
    \A s \in DOMAIN sipStorage :
        /\ sipStorage[s].installmentCount <= Cardinality(SipTxns(s))
        /\ sipStorage[s].nextExecutionDate <=
               Advanced(sipStorage[s].startDate, sipStorage[s].frequency,
                        Cardinality(SipTxns(s)))

\* The installment amount the next pass computes for a SIP.
NextAmount(sip) ==
    calculateSteppedUpAmount(sip.baseAmount, sip.stepUpPercentage,
                             sip.installmentCount + 1)

\* In this step the ledger comes to hold transaction t with this status,
\* which it did not hold with it before.
Applied(t, status) ==
    /\ t \in DOMAIN txnStorage'
    /\ txnStorage'[t].status = status
    /\ t \in DOMAIN txnStorage => txnStorage[t].status # status

NewTxns(sipId) ==
    {t \in DOMAIN txnStorage' \ DOMAIN txnStorage : txnStorage'[t].sipId = sipId}

\* C4: a step that applies FAILURE to a transaction leaves its SIP as it was
\* (installmentCount, nextExecutionDate, state, stepUpPercentage), so the SIP
\* is due wherever it was due and owes the same amount; a FAILURE reported
\* inside the pass leaves the SIP due at that pass's date for the amount just
\* recorded; and a pass over a due SIP that has a FAILURE transaction records
\* one new transaction for the amount of the unchanged installment number,
\* which is the failed one's when the pass before it failed at the same date.
C4_FailureKeepsInstallment ==
    /\ [][\A t \in DOMAIN txnStorage' : Applied(t, "FAILURE") =>
            LET s == txnStorage'[t].sipId IN
            /\ sipStorage'[s] = sipStorage[s]
            /\ \A d \in AsOfDates : isDue(sipStorage[s], d) => isDue(sipStorage'[s], d)
            /\ NextAmount(sipStorage'[s]) = NextAmount(sipStorage[s])
            /\ t \notin DOMAIN txnStorage =>
                  /\ isDue(sipStorage'[s], txnStorage'[t].date)
                  /\ NextAmount(sipStorage'[s]) = txnStorage'[t].amount]_vars
    /\ [][\A s \in DOMAIN sipStorage :
            ( /\ last'.op = "executeDueSIPs"
              /\ isDue(sipStorage[s], last'.arg)
              /\ sipStorage[s].fundId \in DOMAIN navData
              /\ \E f \in SipTxns(s) : txnStorage[f].status = "FAILURE" ) =>
            /\ Cardinality(NewTxns(s)) = 1
            /\ \A t \in NewTxns(s) :
                /\ txnStorage'[t].amount = NextAmount(sipStorage[s])
                /\ \A f \in SipTxns(s) :
                     ( /\ last.op = "executeDueSIPs"
                       /\ last.arg = last'.arg
                       /\ f = generateTransactionId(counter - 1)
                       /\ txnStorage[f].status = "FAILURE" ) =>
                     txnStorage'[t].amount = txnStorage[f].amount]_vars

C4_Witness ==
    /\ last.op = "executeDueSIPs"
    /\ \E f, t \in DOMAIN txnStorage :
        /\ f # t
        /\ t = generateTransactionId(counter - 1)
        /\ txnStorage[f].sipId = txnStorage[t].sipId
        /\ txnStorage[f].status = "FAILURE"
        /\ txnStorage[f].date = txnStorage[t].date
        /\ txnStorage[f].amount = txnStorage[t].amount
        /\ sipStorage[txnStorage[f].sipId].installmentCount = 0

\* C5: the step that applies SUCCESS to a transaction adds exactly 1 to its
\* SIP's installmentCount and sets nextExecutionDate to one period of the
\* SIP's frequency after the stored nextExecutionDate, whatever the pass's
\* asOfDate and the transaction's execution date are; no other field changes.
C5_SuccessAdvancesStoredDate ==
    [][\A t \in DOMAIN txnStorage' : Applied(t, "SUCCESS") =>
        LET s == txnStorage'[t].sipId IN
        sipStorage'[s] =
            [sipStorage[s] EXCEPT
                !.installmentCount = sipStorage[s].installmentCount + 1,
                !.nextExecutionDate =
                    calculateNextExecutionDate(sipStorage[s].nextExecutionDate,
                                               sipStorage[s].frequency)]]_vars

C5_Witness ==
    \E t \in DOMAIN txnStorage :
        LET sip == sipStorage[txnStorage[t].sipId] IN
        /\ last.op = "completePayment"
        /\ last.id = t
        /\ txnStorage[t].status = "SUCCESS"
        /\ sip.installmentCount = 1
        /\ sip.nextExecutionDate = calculateNextExecutionDate(sip.startDate, sip.frequency)
        /\ txnStorage[t].date > sip.nextExecutionDate

\* C6: a SIP's nextExecutionDate changes only in a step that applies SUCCESS
\* to one of its transactions, only to a later date, and never while the SIP
\* is PAUSED or STOPPED.
C6_DateMovesOnlyForActiveSuccess ==
    [][\A s \in DOMAIN sipStorage :
        sipStorage'[s].nextExecutionDate # sipStorage[s].nextExecutionDate =>
            /\ \E t \in DOMAIN txnStorage' :
                   Applied(t, "SUCCESS") /\ txnStorage'[t].sipId = s
            /\ sipStorage'[s].nextExecutionDate > sipStorage[s].nextExecutionDate
            /\ sipStorage[s].state = "ACTIVE"]_vars

\* C7: once a SIP is STOPPED none of its fields changes again.
C7_StoppedIsFrozen ==
    [][\A s \in DOMAIN sipStorage :
        sipStorage[s].state = "STOPPED" => sipStorage'[s] = sipStorage[s]]_vars

\* C8: a SIP's installmentCount is the number of its transactions whose
\* status is SUCCESS, and 0 when the SIP is created.
C8_CountIsSuccesses ==
    /\ [](\A s \in DOMAIN sipStorage :
            sipStorage[s].installmentCount = Cardinality(SuccessfulTxns(s)))
    /\ [][\A s \in DOMAIN sipStorage' \ DOMAIN sipStorage :
            sipStorage'[s].installmentCount = 0]_vars

C8_Witness ==
    \E s \in DOMAIN sipStorage :
        /\ sipStorage[s].installmentCount = 1
        /\ Cardinality(SipTxns(s)) = 2
        /\ \E t \in SipTxns(s) : txnStorage[t].status = "FAILURE"

\* C9: the SIP state changes only ACTIVE to PAUSED by pause, PAUSED to ACTIVE
\* by unpause, and ACTIVE or PAUSED to STOPPED by stop; pause succeeds exactly
\* on an ACTIVE SIP, unpause exactly on a PAUSED one, stop exactly on an
\* ACTIVE or PAUSED one, and a call that succeeds makes its transition.
C9_LegalTransitions ==
    /\ [][\A s \in DOMAIN sipStorage :
            LET from == sipStorage[s].state
                to == sipStorage'[s].state
            IN
            /\ to # from =>
                /\ last'.id = s
                /\ last'.err = NoError
                /\ \/ from = "ACTIVE" /\ to = "PAUSED" /\ last'.op = "pause"
                   \/ from = "PAUSED" /\ to = "ACTIVE" /\ last'.op = "unpause"
                   \/ from \in {"ACTIVE", "PAUSED"} /\ to = "STOPPED" /\ last'.op = "stop"
            /\ (last'.id = s /\ last'.op = "pause" /\ from = "ACTIVE") => to = "PAUSED"
            /\ (last'.id = s /\ last'.op = "unpause" /\ from = "PAUSED") => to = "ACTIVE"
            /\ (last'.id = s /\ last'.op = "stop" /\ from # "STOPPED") => to = "STOPPED"]_vars
    /\ [](\A s \in DOMAIN sipStorage :
            /\ pauseSIP(sipStorage, s).err = NoError <=> sipStorage[s].state = "ACTIVE"
            /\ unpauseSIP(sipStorage, s).err = NoError <=> sipStorage[s].state = "PAUSED"
            /\ stopSIP(sipStorage, s).err = NoError <=>
                   sipStorage[s].state \in {"ACTIVE", "PAUSED"})

C9_Witness ==
    /\ last.op = "unpause"
    /\ last.err = NoError
    /\ last.id \in DOMAIN sipStorage
    /\ sipStorage[last.id].state = "ACTIVE"

\* C10: pause from PAUSED or STOPPED, unpause from ACTIVE or STOPPED, stop
\* from STOPPED and modify step-up from STOPPED end with an InvalidState error
\* that carries the SIP id, the SIP's state and the operation, and leave the
\* SIP store as it was.
IllegalCall(op, state) ==
    \/ op = "pause" /\ state \in {"PAUSED", "STOPPED"}
    \/ op = "unpause" /\ state \in {"ACTIVE", "STOPPED"}
    \/ op = "stop" /\ state = "STOPPED"
    \/ op = "modify step-up" /\ state = "STOPPED"

C10_IllegalCallRejected ==
    [][\A s \in DOMAIN sipStorage :
        (last'.id = s /\ IllegalCall(last'.op, sipStorage[s].state)) =>
            /\ last'.err.kind = "InvalidState"
            /\ last'.err.id = s
            /\ last'.err.currentState = sipStorage[s].state
            /\ last'.err.operation = last'.op
            /\ sipStorage' = sipStorage]_vars

C10_Witness ==
    /\ last.op = "modify step-up"
    /\ last.arg = -5
    /\ last.err.kind = "InvalidState"
    /\ last.err.currentState = "STOPPED"
    /\ last.id \in DOMAIN sipStorage
    /\ sipStorage[last.id].state = "STOPPED"

\* C11: stop on a PAUSED SIP succeeds and leaves it STOPPED; a STOPPED SIP
\* stays STOPPED in every later step, and in every state pause, unpause and
\* modify step-up (with any percentage) on a STOPPED SIP end with an
\* InvalidState error.
C11_StoppedRejectsLifecycle ==
    /\ [][\A s \in DOMAIN sipStorage :
            /\ (last'.op = "stop" /\ last'.id = s /\ sipStorage[s].state = "PAUSED") =>
                   (last'.err = NoError /\ sipStorage'[s].state = "STOPPED")
            /\ sipStorage[s].state = "STOPPED" =>
                   (s \in DOMAIN sipStorage' /\ sipStorage'[s].state = "STOPPED")
            /\ (sipStorage[s].state = "STOPPED" /\ last'.id = s
                   /\ last'.op \in {"pause", "unpause", "modify step-up"}) =>
                   last'.err.kind = "InvalidState"]_vars
    /\ [](\A s \in DOMAIN sipStorage : sipStorage[s].state = "STOPPED" =>
            /\ pauseSIP(sipStorage, s).err.kind = "InvalidState"
            /\ unpauseSIP(sipStorage, s).err.kind = "InvalidState"
            /\ \A v \in StepUps : modifyStepUp(sipStorage, s, v).err.kind = "InvalidState")

C11_Witness ==
    /\ last.op = "unpause"
    /\ last.err.kind = "InvalidState"
    /\ last.err.currentState = "STOPPED"
    /\ last.id \in DOMAIN sipStorage
    /\ sipStorage[last.id].state = "STOPPED"
    /\ SipTxns(last.id) = {}

\* The stored SIPs a pass at asOfDate can hand to the payment service: due,
\* and of a fund the price service knows.
Payable(asOfDate) ==
    {s \in DOMAIN sipStorage : /\ isDue(sipStorage[s], asOfDate)
                               /\ sipStorage[s].fundId \in DOMAIN navData}

\* C12: isDue(sip, asOfDate) is true exactly when the SIP is ACTIVE and its
\* nextExecutionDate is on or before asOfDate; getDueSIPs returns exactly the
\* stored SIPs for which isDue holds; and a pass creates transactions only
\* for SIPs that were due when it started.
C12_DueSet ==
    /\ [](\A d \in AsOfDates :
            /\ \A s \in DOMAIN sipStorage :
                 isDue(sipStorage[s], d) <=>
                     (sipStorage[s].state = "ACTIVE" /\ sipStorage[s].nextExecutionDate <= d)
            /\ getDueSIPs(sipStorage, d) =
                 {sipStorage[s] : s \in {i \in DOMAIN sipStorage : isDue(sipStorage[i], d)}})
    /\ [][last'.op = "executeDueSIPs" =>
            \A s \in DOMAIN sipStorage :
                /\ NewTxns(s) # {} => isDue(sipStorage[s], last'.arg)
                /\ s \in Payable(last'.arg) => NewTxns(s) # {}]_vars

C12_Witness ==
    /\ last.op = "executeDueSIPs"
    /\ last.ret = 0
    /\ \E s \in DOMAIN sipStorage :
        /\ sipStorage[s].state = "PAUSED"
        /\ sipStorage[s].nextExecutionDate <= last.arg
        /\ SipTxns(s) = {}

\* C13: a pass adds, for each due SIP whose fund has a NAV, exactly one
\* transaction under an identifier the ledger did not hold, owned by that SIP,
\* dated asOfDate, of type INSTALLMENT, with the NAV the price service holds
\* and the stepped-up amount of installment installmentCount + 1; the ledger's
\* earlier records are not overwritten; a payment the service defers leaves
\* the transaction PENDING, unprocessed and held by the payment service, and
\* one it completes at once leaves it processed with the payment's result.
C13_PassRecordsOneTransaction ==
    [][last'.op = "executeDueSIPs" =>
        /\ \A old \in DOMAIN txnStorage :
              old \in DOMAIN txnStorage' /\ txnStorage'[old] = txnStorage[old]
        /\ Cardinality(DOMAIN txnStorage') =
              Cardinality(DOMAIN txnStorage) + Cardinality(Payable(last'.arg))
        /\ \A s \in Payable(last'.arg) :
            /\ Cardinality(NewTxns(s)) = 1
            /\ \A t \in NewTxns(s) :
                LET txn == txnStorage'[t]
                    sip == sipStorage[s]
                IN /\ txn.id = t
                   /\ txn.amount = calculateSteppedUpAmount(sip.baseAmount,
                          sip.stepUpPercentage, sip.installmentCount + 1)
                   /\ txn.nav = navData[sip.fundId]
                   /\ txn.type = "INSTALLMENT"
                   /\ txn.date = last'.arg
                   /\ ~autoComplete =>
                         /\ txn.status = "PENDING"
                         /\ ~txn.callbackProcessed
                         /\ t \in DOMAIN pendingPayments'
                   /\ autoComplete =>
                         /\ txn.status \in {"SUCCESS", "FAILURE"}
                         /\ txn.callbackProcessed
                         /\ t \notin DOMAIN pendingPayments']_vars

C13_Witness ==
    /\ last.op = "executeDueSIPs"
    /\ last.ret = 1
    /\ ~autoComplete
    /\ \E t \in DOMAIN pendingPayments :
        /\ t = generateTransactionId(counter - 1)
        /\ txnStorage[t].status = "PENDING"
        /\ txnStorage[t].amount > sipStorage[txnStorage[t].sipId].baseAmount
        /\ sipStorage[txnStorage[t].sipId].installmentCount = 1

\* C14: every transaction is created for a SIP whose stored state is ACTIVE
\* in the state the transaction is created from.
C14_NoTransactionUnlessActive ==
    [][\A t \in DOMAIN txnStorage' \ DOMAIN txnStorage :
        /\ txnStorage'[t].sipId \in DOMAIN sipStorage
        /\ sipStorage[txnStorage'[t].sipId].state = "ACTIVE"]_vars

\* C15: in a pass, a due SIP whose fund the price service does not know gets
\* no transaction and keeps every field; every other due SIP gets exactly one
\* transaction, in whatever order the due SIPs are taken; the pass returns
\* normally, and its result is the number of due SIPs whose payment it
\* initiated.
C15_UnknownFundIsSkipped ==
    [][last'.op = "executeDueSIPs" =>
        LET due == {s \in DOMAIN sipStorage : isDue(sipStorage[s], last'.arg)}
            unknown == {s \in due : sipStorage[s].fundId \notin DOMAIN navData}
        IN /\ \A s \in unknown : NewTxns(s) = {} /\ sipStorage'[s] = sipStorage[s]
           /\ \A s \in due \ unknown :
                /\ Cardinality(NewTxns(s)) = 1
                /\ \A t \in NewTxns(s) :
                     t \in DOMAIN pendingPayments' \/ txnStorage'[t].callbackProcessed
           /\ last'.err = NoError
           /\ last'.ret = Cardinality(due \ unknown)]_vars

C15_Witness ==
    /\ last.op = "executeDueSIPs"
    /\ last.ret = 1
    /\ \E s1, s2 \in DOMAIN sipStorage :
        /\ Cardinality(SipTxns(s1)) = 1
        /\ \A t \in SipTxns(s1) : txnStorage[t].date = last.arg
        /\ sipStorage[s2].fundId \notin DOMAIN navData
        /\ isDue(sipStorage[s2], last.arg)
        /\ SipTxns(s2) = {}

\* C16: a pass at a date at which no stored SIP is due returns 0 and leaves
\* the SIP store, the ledger, the identifier counter and the payments held by
\* the payment service as they were.
C16_NothingDueNothingDone ==
    [][( /\ last'.op = "executeDueSIPs"
         /\ \A s \in DOMAIN sipStorage :
               ~(sipStorage[s].state = "ACTIVE"
                 /\ sipStorage[s].nextExecutionDate <= last'.arg) ) =>
        /\ last'.ret = 0
        /\ last'.err = NoError
        /\ sipStorage' = sipStorage
        /\ txnStorage' = txnStorage
        /\ pendingPayments' = pendingPayments
        /\ counter' = counter]_vars

C16_Witness ==
    /\ last.op = "executeDueSIPs"
    /\ last.ret = 0
    /\ \E s \in DOMAIN sipStorage :
        /\ sipStorage[s].state = "ACTIVE"
        /\ sipStorage[s].nextExecutionDate > last.arg
        /\ sipStorage[s].installmentCount = 1
        /\ Cardinality(SipTxns(s)) = 1

\* The number of days of a month, from the day numbers of its first day and
\* of the first day of the month after it.
LastDayOfMonth(year, month) ==
    LET first == mktime([tm_year |-> year, tm_mon |-> month - 1, tm_mday |-> 1])
        next == IF month = 12
                THEN mktime([tm_year |-> year + 1, tm_mon |-> 0, tm_mday |-> 1])
                ELSE mktime([tm_year |-> year, tm_mon |-> month, tm_mday |-> 1])
    IN next - first

MonthsOf(frequency) == IF frequency = "QUARTERLY" THEN 3 ELSE 1

\* C17: updateNextExecutionDate moves nextExecutionDate to a later date: 7
\* days later for WEEKLY; for MONTHLY and QUARTERLY the date 1 or 3 calendar
\* months later (the year rolling over after December) with the same day of
\* month, or the month's last day where the month is shorter.  2024-01-31
\* plus a month is 2024-02-29, 2025-01-31 plus a month 2025-02-28,
\* 2024-12-15 plus a month 2025-01-15, 2024-11-30 plus a quarter 2025-02-28.
C17_NextDateFormula ==
    /\ [][last'.op = "updateNextExecutionDate" =>
            \A s \in DOMAIN sipStorage :
                LET old == sipStorage[s].nextExecutionDate
                    new == sipStorage'[s].nextExecutionDate
                    frequency == sipStorage[s].frequency
                IN /\ new > old
                   /\ sipStorage'[s] = [sipStorage[s] EXCEPT !.nextExecutionDate = new]
                   /\ frequency = "WEEKLY" => new = old + 7
                   /\ frequency # "WEEKLY" =>
                        \A a \in {localtime(old)}, b \in {localtime(new)} :
                            /\ b.tm_year * 12 + b.tm_mon =
                                   a.tm_year * 12 + a.tm_mon + MonthsOf(frequency)
                            /\ \A lastDay \in {LastDayOfMonth(b.tm_year, b.tm_mon + 1)} :
                                   b.tm_mday = IF a.tm_mday > lastDay THEN lastDay
                                               ELSE a.tm_mday]_vars
    /\ [](/\ calculateNextExecutionDate(30, "MONTHLY") = 59
          /\ calculateNextExecutionDate(396, "MONTHLY") = 424
          /\ calculateNextExecutionDate(349, "MONTHLY") = 380
          /\ calculateNextExecutionDate(334, "QUARTERLY") = 424)

C17_Witness ==
    /\ last.op = "updateNextExecutionDate"
    /\ \E s \in DOMAIN sipStorage :
        /\ sipStorage[s].frequency = "MONTHLY"
        /\ sipStorage[s].startDate = 396
        /\ sipStorage[s].nextExecutionDate = 424

\* C18 as stated: every createSIP call that fails ends with a Validation
\* error and leaves the SIP store unchanged.
C18_RejectsWithValidation ==
    [][(last'.op = "createSIP" /\ last'.err # NoError) =>
        /\ last'.err.kind = "Validation"
        /\ sipStorage' = sipStorage]_vars

\* createSIP arguments: a known and an unknown user and fund, a positive and
\* a zero amount, a zero and a negative step-up.
CreateArguments ==
    {Request(userId, fundId, amount, "MONTHLY", 30, stepUpPercentage) :
        userId \in UserIds \cup {UnknownUser}, fundId \in {"f1", UnknownFund},
        amount \in {0, 1000}, stepUpPercentage \in {-5, 0}}

\* C18 amended: createSIP ends with UserNotFound if the user does not exist,
\* otherwise with FundNotFound if the fund does not exist, otherwise with
\* Validation if amount <= 0 or step-up < 0; in each of these cases the SIP
\* store is unchanged and no identifier is taken; otherwise it adds one SIP.
C18_RejectsByKind ==
    /\ [](\A r \in CreateArguments :
            LET out == createSIP(sipStorage, counter, r.userId, r.fundId, r.amount,
                                 r.frequency, r.startDate, r.stepUpPercentage)
                badUser == r.userId \notin UserIds
                badFund == r.fundId \notin FundIds
                badValue == r.amount <= 0 \/ r.stepUpPercentage < 0
            IN /\ badUser => out.err = UserNotFoundException(r.userId)
               /\ (~badUser /\ badFund) => out.err = FundNotFoundException(r.fundId)
               /\ (~badUser /\ ~badFund /\ badValue) => out.err.kind = "Validation"
               /\ (badUser \/ badFund \/ badValue) => out.storage = sipStorage
               /\ ~(badUser \/ badFund \/ badValue) =>
                     /\ out.err = NoError
                     /\ DOMAIN out.storage = DOMAIN sipStorage \cup {generateSipId(counter)}
                     /\ generateSipId(counter) \notin DOMAIN sipStorage)
    /\ [][(last'.op = "createSIP" /\ last'.err # NoError) =>
            /\ last'.err.kind \in {"UserNotFound", "FundNotFound", "Validation"}
            /\ sipStorage' = sipStorage
            /\ counter' = counter]_vars

C18_Witness ==
    /\ last.op = "createSIP"
    /\ last.err = UserNotFoundException(UnknownUser)
    /\ sipStorage = Empty
    /\ counter = 1

\* C19: modify step-up on an ACTIVE or PAUSED SIP with a percentage >= 0
\* returns normally and changes the stored stepUpPercentage to it and nothing
\* else in the SIP store; with a percentage < 0 it ends with a Validation
\* error and the SIP store is unchanged.
C19_ModifyStepUpFrame ==
    [][\A s \in DOMAIN sipStorage :
        ( /\ last'.op = "modify step-up"
          /\ last'.id = s
          /\ sipStorage[s].state \in {"ACTIVE", "PAUSED"} ) =>
            /\ last'.arg >= 0 =>
                  /\ last'.err = NoError
                  /\ sipStorage' =
                        [sipStorage EXCEPT ![s].stepUpPercentage = last'.arg]
            /\ last'.arg < 0 =>
                  /\ last'.err.kind = "Validation"
                  /\ sipStorage' = sipStorage]_vars

C19_Witness ==
    /\ last.op = "modify step-up"
    /\ last.arg = 0
    /\ last.err = NoError
    /\ last.id \in DOMAIN sipStorage
    /\ LET sip == sipStorage[last.id] IN
       /\ sip.state = "PAUSED"
       /\ sip.frequency = "MONTHLY"
       /\ sip.stepUpPercentage = 0
       /\ sip.installmentCount = 1
       /\ sip.nextExecutionDate = calculateNextExecutionDate(sip.startDate, "MONTHLY")

\* The step delivers a payment callback for transaction t.
DeliveredTo(t) ==
    last'.op \in {"completePayment", "redeliver"} /\ last'.id = t

\* C20: a transaction that is PENDING and unprocessed keeps every field in
\* each step that delivers no callback for it, and in such a step its SIP's
\* installmentCount and nextExecutionDate are unchanged unless the step
\* applies SUCCESS to another transaction of that SIP.
C20_UndeliveredStaysPending ==
    [][\A t \in DOMAIN txnStorage :
        ( /\ txnStorage[t].status = "PENDING"
          /\ ~txnStorage[t].callbackProcessed
          /\ ~DeliveredTo(t) ) =>
            LET s == txnStorage[t].sipId IN
            /\ t \in DOMAIN txnStorage'
            /\ txnStorage'[t] = txnStorage[t]
            /\ t \in DOMAIN pendingPayments => t \in DOMAIN pendingPayments'
            /\ (~\E u \in DOMAIN txnStorage' \ {t} :
                    Applied(u, "SUCCESS") /\ txnStorage'[u].sipId = s) =>
                  /\ sipStorage'[s].installmentCount = sipStorage[s].installmentCount
                  /\ sipStorage'[s].nextExecutionDate = sipStorage[s].nextExecutionDate]_vars

C20_Witness ==
    /\ last.op = "completePayment"
    /\ last.arg = "FAILURE"
    /\ \E t \in DOMAIN pendingPayments :
        /\ t # last.id
        /\ txnStorage[t].status = "PENDING"
        /\ ~txnStorage[t].callbackProcessed
        /\ txnStorage[last.id].sipId = txnStorage[t].sipId
        /\ txnStorage[last.id].status = "FAILURE"
        /\ sipStorage[txnStorage[t].sipId].installmentCount = 0
        /\ sipStorage[txnStorage[t].sipId].nextExecutionDate =
               sipStorage[txnStorage[t].sipId].startDate

(* C21: one executeDueSIPs pass whose payments are completed afterwards
   through completePayment, in any order and with nothing else in between,
   ends in the SIP store and the transaction ledger that the same pass
   leaves when every payment is completed inside initiatePayment with the
   same outcome. *)
PaidAtOnce(record) ==
    executeLoop([record.before EXCEPT !.auto = TRUE], record.dueSIPs, 1,
                record.asOfDate, record.results)

C21_SameEndEitherWay ==
    (Recorded /\ pendingPayments = Empty) =>
        LET atOnce == PaidAtOnce(inflight["record"])
        IN /\ sipStorage = atOnce.sips
           /\ txnStorage = atOnce.txns

\* A deferred pass over two SIPs, one paid and one failed, completed in the
\* reverse of the order in which the pass submitted them.
C21_Witness ==
    /\ Recorded
    /\ ~autoComplete
    /\ pendingPayments = Empty
    /\ LET record == inflight["record"] IN
       /\ Len(record.dueSIPs) = 2
       /\ record.results[record.dueSIPs[1].id] = "SUCCESS"
       /\ record.results[record.dueSIPs[2].id] = "FAILURE"
       /\ last.op = "completePayment"
       /\ last.id = generateTransactionId(record.before.count)

(* C22: the ledger only grows: every transaction stays under its id with
   its sipId, amount, units, NAV, date and type as created; a step changes
   a stored transaction only by giving it a status together with the
   callback-applied flag, and only while that flag is not yet set. *)
SameAsCreated(t, u) ==
    /\ u.id = t.id
    /\ u.sipId = t.sipId
    /\ u.amount = t.amount
    /\ u.units = t.units
    /\ u.nav = t.nav
    /\ u.date = t.date
    /\ u.type = t.type

C22_LedgerOnlyGrows ==
    [][\A id \in DOMAIN txnStorage :
          /\ id \in DOMAIN txnStorage'
          /\ SameAsCreated(txnStorage[id], txnStorage'[id])
          /\ txnStorage'[id] # txnStorage[id] =>
                /\ ~txnStorage[id].callbackProcessed
                /\ txnStorage'[id].callbackProcessed
                /\ last'.op \in {"executeDueSIPs", "completePayment", "redeliver"}]_vars

\* A failed transaction stays in the ledger while a later pass adds the
\* retry next to it.
C22_Witness ==
    /\ last.op = "executeDueSIPs"
    /\ \E id, retry \in DOMAIN txnStorage :
          /\ id # retry
          /\ txnStorage[id].status = "FAILURE"
          /\ txnStorage[id].callbackProcessed
          /\ txnStorage[retry].sipId = txnStorage[id].sipId
          /\ id[2] < retry[2]

(* C23: a pass at a date at which an ACTIVE SIP is due, when every payment
   made for that SIP so far has ended in FAILURE, records exactly one new
   transaction for it, for the amount of each failed one and of the same
   installment number; unless that payment succeeds the SIP is left as it
   was and is due again at that date and at every later one, whatever the
   number of FAILURE transactions it already has. *)
C23_FailedSipIsRetriedAlike ==
    [][\A s \in DOMAIN sipStorage :
          ( /\ last'.op = "executeDueSIPs"
            /\ isDue(sipStorage[s], last'.arg)
            /\ SipTxns(s) # {}
            /\ \A f \in SipTxns(s) : txnStorage[f].status = "FAILURE" ) =>
          /\ Cardinality(NewTxns(s)) = 1
          /\ \A t \in NewTxns(s) :
                /\ \A f \in SipTxns(s) : txnStorage'[t].amount = txnStorage[f].amount
                /\ txnStorage'[t].amount = NextAmount(sipStorage[s])
                /\ txnStorage'[t].status # "SUCCESS" =>
                      /\ sipStorage'[s] = sipStorage[s]
                      /\ \A d \in AsOfDates :
                            d >= last'.arg => isDue(sipStorage'[s], d)]_vars

\* As many FAILURE transactions of one SIP as the ledger is followed for, the
\* last one recorded by a pass at a later date than the first, and the SIP
\* still ACTIVE and due with no installment counted.
C23_Witness ==
    /\ last.op = "executeDueSIPs"
    /\ \E s \in DOMAIN sipStorage :
          /\ Cardinality(SipTxns(s)) = MaxRetryTxns
          /\ \A f \in SipTxns(s) : txnStorage[f].status = "FAILURE"
          /\ \E f, g \in SipTxns(s) : txnStorage[f].date < txnStorage[g].date
          /\ sipStorage[s].installmentCount = 0
          /\ isDue(sipStorage[s], last.arg)

(* C24: a callback that names a transaction the ledger does not hold, with
   SUCCESS or with FAILURE, returns normally and leaves the ledger and the
   SIP store, the SIP bound into the callback included, as they were. *)
C24_UnknownTransactionIsNoOp ==
    [][last'.op = "unknown callback" =>
          /\ last'.id \notin DOMAIN txnStorage
          /\ last'.err = NoError
          /\ txnStorage' = txnStorage
          /\ sipStorage' = sipStorage
          /\ pendingPayments' = pendingPayments]_vars

\* SUCCESS delivered under an unknown id through the closure of an ACTIVE
\* SIP whose own payment is still pending.
C24_Witness ==
    /\ last.op = "unknown callback"
    /\ last.arg = "SUCCESS"
    /\ \E t \in DOMAIN pendingPayments :
          /\ txnStorage[t].status = "PENDING"
          /\ sipStorage[txnStorage[t].sipId].state = "ACTIVE"
          /\ sipStorage[txnStorage[t].sipId].installmentCount = 0

(* C25: every transaction in the ledger has units = amount / NAV when the
   NAV it was executed at is positive, and units = 0 when that NAV is zero
   or negative. *)
C25_UnitsFromNav ==
    \A t \in DOMAIN txnStorage :
        txnStorage[t].units =
            IF txnStorage[t].nav > 0
            THEN (txnStorage[t].amount * 1000) \div txnStorage[t].nav
            ELSE 0

(* C26: the amount of installment n is the base amount when the step-up is
   not positive or n <= 1, and otherwise base x (1 + stepUp/100)^(n-1), to
   within one unit of the amount; base 1000 with step-up 10 gives 1000,
   1100 and 1210 for installments 1, 2 and 3. *)
RECURSIVE IntPower(_, _)
IntPower(b, k) == IF k <= 0 THEN 1 ELSE b * IntPower(b, k - 1)

C26_CompoundFormula ==
    last.op = "calculateSteppedUpAmount" =>
        LET base == last.arg.baseAmount
            stepUp == last.arg.stepUpPercentage
            n == last.arg.installmentNumber
            amount == last.ret
        IN /\ (stepUp <= 0 \/ n <= 1) => amount = base
           /\ (stepUp > 0 /\ n > 1) =>
                 /\ amount * IntPower(100, n - 1) <= base * IntPower(100 + stepUp, n - 1)
                 /\ base * IntPower(100 + stepUp, n - 1) < (amount + 1) * IntPower(100, n - 1)
           /\ (base = 1000 /\ stepUp = 10 /\ n = 1) => amount = 1000
           /\ (base = 1000 /\ stepUp = 10 /\ n = 2) => amount = 1100
           /\ (base = 1000 /\ stepUp = 10 /\ n = 3) => amount = 1210

\* The third installment of base 1000 with step-up 10.
C26_Witness ==
    /\ last.op = "calculateSteppedUpAmount"
    /\ last.arg = SteppedUpArguments(1000, 10, 3)
    /\ last.ret = 1210

(* C27: for every stored SIP, in whatever state, the SIP service's current
   installment amount and the valuation's currentInstallmentAmount are the
   scheduler's formula at installmentCount + 1 and the valuation's
   nextInstallmentAmount is that formula at installmentCount + 2; and the
   amount a pass records on a new transaction of the SIP is what both
   reported just before the pass. *)
C27_OneAmountThreeTimes ==
    /\ [](\A s \in DOMAIN sipStorage :
            LET sip == sipStorage[s]
                item == buildPortfolioItem(sip)
                current == calculateCurrentInstallmentAmount(sipStorage, s)
            IN /\ current.err = NoError
               /\ current.ret = calculateSteppedUpAmount(
                      sip.baseAmount, sip.stepUpPercentage, sip.installmentCount + 1)
               /\ item.currentInstallmentAmount = current.ret
               /\ item.nextInstallmentAmount = calculateSteppedUpAmount(
                      sip.baseAmount, sip.stepUpPercentage, sip.installmentCount + 2))
    /\ [][\A s \in DOMAIN sipStorage : \A t \in NewTxns(s) :
            /\ txnStorage'[t].amount =
                   calculateCurrentInstallmentAmount(sipStorage, s).ret
            /\ txnStorage'[t].amount =
                   buildPortfolioItem(sipStorage[s]).currentInstallmentAmount]_vars

\* A pass has just recorded the second installment of a SIP with step-up 10
\* for 1100 and the valuation now projects 1210 and 1331.
C27_Witness ==
    /\ last.op = "executeDueSIPs"
    /\ \E s \in DOMAIN sipStorage :
          /\ sipStorage[s].stepUpPercentage = 10
          /\ sipStorage[s].installmentCount = 2
          /\ \E t \in SipTxns(s) : txnStorage[t].amount = 1100
          /\ buildPortfolioItem(sipStorage[s]).currentInstallmentAmount = 1210
          /\ buildPortfolioItem(sipStorage[s]).nextInstallmentAmount = 1331
          /\ calculateCurrentInstallmentAmount(sipStorage, s).ret = 1210

(* C28: in every state, for every SIP, the totalInvested and totalUnits of
   its portfolio item, and what calculateTotalInvested and
   calculateTotalUnits return for it, are the sums of amount and of units
   over the ledger entries that belong to that SIP and have status SUCCESS;
   every other entry counts for nothing. *)
RECURSIVE LedgerSum(_, _, _)
\* The field summed over the ledger entries ids that are SUCCESS entries of
\* the SIP.
LedgerSum(ids, sipId, field) ==
    IF ids = {} THEN 0
    ELSE LET t == CHOOSE id \in ids : TRUE
             counts == /\ txnStorage[t].sipId = sipId
                       /\ txnStorage[t].status = "SUCCESS"
         IN (IF counts THEN txnStorage[t][field] ELSE 0)
            + LedgerSum(ids \ {t}, sipId, field)

C28_TotalsAreSuccessSums ==
    /\ \A s \in DOMAIN sipStorage :
          LET item == buildPortfolioItem(sipStorage[s])
              invested == LedgerSum(DOMAIN txnStorage, s, "amount")
              units == LedgerSum(DOMAIN txnStorage, s, "units")
          IN /\ item.totalInvested = invested
             /\ item.totalUnits = units
             /\ calculateTotalInvested(s) = invested
             /\ calculateTotalUnits(s) = units
    /\ last.op = "calculateTotalInvested" =>
          last.ret = LedgerSum(DOMAIN txnStorage, last.id, "amount")
    /\ last.op = "calculateTotalUnits" =>
          last.ret = LedgerSum(DOMAIN txnStorage, last.id, "units")
    /\ last.op = "getUserPortfolio" =>
          \A item \in last.ret :
              /\ item.totalInvested = LedgerSum(DOMAIN txnStorage, item.sip.id, "amount")
              /\ item.totalUnits = LedgerSum(DOMAIN txnStorage, item.sip.id, "units")

\* The portfolio is read while a SIP has a paid transaction and one that is
\* not paid, and the other SIP has a paid one too.
C28_Witness ==
    /\ last.op = "getUserPortfolio"
    /\ \E s, o \in DOMAIN sipStorage :
          /\ s # o
          /\ \E t \in SipTxns(s) : txnStorage[t].status = "SUCCESS"
          /\ \E t \in SipTxns(s) : txnStorage[t].status # "SUCCESS"
          /\ \E t \in SipTxns(o) : txnStorage[t].status = "SUCCESS"
          /\ \E item \in last.ret :
                /\ item.sip.id = s
                /\ item.totalInvested = 1000
                /\ item.totalUnits = 10000

(* C29: a portfolio item reports currentValue = totalUnits x currentNAV,
   gainLoss = currentValue - totalInvested and gainLossPercentage =
   gainLoss / totalInvested x 100 to the nearest hundredth, 0 when nothing
   is invested; SUCCESS transactions of (1000, 10 units) and (1100, 10
   units) at NAV 120 give 2100, 20 units, 2400, 300 and 14.29. *)
ValuedAsStated(item) ==
    /\ item.currentValue * 1000 <= item.totalUnits * item.currentNav
    /\ item.totalUnits * item.currentNav < (item.currentValue + 1) * 1000
    /\ item.gainLoss = item.currentValue - item.totalInvested
    /\ item.totalInvested = 0 => item.gainLossPercentage = 0
    /\ item.totalInvested > 0 =>
          LET error == item.gainLossPercentage * item.totalInvested
                           - item.gainLoss * 10000
          IN 2 * error <= item.totalInvested /\ -2 * error <= item.totalInvested

TheExample(sipId) ==
    /\ navData[sipStorage[sipId].fundId] = 120
    /\ Cardinality(getSuccessfulBySipId(txnStorage, sipId)) = 2
    /\ {[amount |-> t.amount, units |-> t.units] :
            t \in getSuccessfulBySipId(txnStorage, sipId)}
          = {[amount |-> 1000, units |-> 10000], [amount |-> 1100, units |-> 10000]}

C29_Valuation ==
    /\ \A s \in DOMAIN sipStorage :
          LET item == buildPortfolioItem(sipStorage[s])
          IN /\ ValuedAsStated(item)
             /\ TheExample(s) =>
                   /\ item.totalInvested = 2100
                   /\ item.totalUnits = 20000
                   /\ item.currentValue = 2400
                   /\ item.gainLoss = 300
                   /\ item.gainLossPercentage = 1429
    /\ last.op \in {"getUserPortfolio", "filterByState"} =>
          \A item \in last.ret : ValuedAsStated(item)

\* The portfolio is read in the state of the example.
C29_Witness ==
    /\ last.op = "getUserPortfolio"
    /\ \E item \in last.ret :
          /\ TheExample(item.sip.id)
          /\ item.currentValue = 2400
          /\ item.gainLossPercentage = 1429

(* C30: a query of the portfolio service leaves the SIP store, the ledger,
   the NAV data, the id counter and the pending payments as they were, and
   in every state, also while payments are pending, the queries answer: one
   item per SIP of the user, every SIP counted under its state, the whole
   history of each SIP and a current value for it. *)
C30_QueriesOnlyRead ==
    /\ [][last'.op \in PortfolioQueries =>
            /\ sipStorage' = sipStorage
            /\ txnStorage' = txnStorage
            /\ navData' = navData
            /\ counter' = counter
            /\ pendingPayments' = pendingPayments]_vars
    /\ [](\A userId \in UserIds :
            LET summary == getPortfolioSummary(userId)
                sips == getByUserId(sipStorage, userIndex, userId)
            IN /\ Cardinality(getUserPortfolio(userId)) = Cardinality(sips)
               /\ summary.activeSIPCount + summary.pausedSIPCount
                      + summary.stoppedSIPCount = Cardinality(sips)
               /\ \A sip \in sips :
                     /\ getTransactionHistory(sip.id)
                            = {txnStorage[t] : t \in SipTxns(sip.id)}
                     /\ sip.fundId \in DOMAIN navData =>
                            calculateCurrentValue(sip.id).err = NoError)

\* The summary is read while a payment is pending; the transaction is still
\* PENDING and its payment still held.
C30_Witness ==
    /\ last.op = "getPortfolioSummary"
    /\ last.ret.totalInvested = 0
    /\ \E t \in DOMAIN pendingPayments : txnStorage[t].status = "PENDING"

(* C31: every NAV the price oracle stores is greater than 0, whichever of
   updateNAV, setNAVs and simulateMarketMovement were applied, so that
   getCurrentNAV of a known fund returns a positive number; getCurrentNAV
   of an unknown fund fails with FundNotFound. *)
C31_StoredNavIsPositive ==
    /\ \A fundId \in DOMAIN navData : navData[fundId] > 0
    /\ last.op = "getCurrentNAV" =>
          IF last.id[1] \in DOMAIN navData
          THEN last.err = NoError /\ last.ret > 0
          ELSE last.err = FundNotFoundException(last.id[1])

RECURSIVE SumOf(_)
\* The sum of the values of a function with a finite domain.
SumOf(f) ==
    IF DOMAIN f = {} THEN 0
    ELSE LET k == CHOOSE j \in DOMAIN f : TRUE
         IN f[k] + SumOf([j \in DOMAIN f \ {k} |-> f[j]])

\* The stored SIPs of a user, by id.
SipsOf(userId) == {k \in DOMAIN sipStorage : sipStorage[k].userId = userId}

\* A summary that adds up the per-SIP figures of exactly the user's SIPs and
\* counts each of them once, under the state it is in.
SummarisesUser(summary, userId) ==
    LET own == SipsOf(userId)
        InState(state) == Cardinality({k \in own : sipStorage[k].state = state})
    IN /\ summary.totalInvested = SumOf([k \in own |-> calculateTotalInvested(k)])
       /\ summary.totalUnits = SumOf([k \in own |-> calculateTotalUnits(k)])
       /\ summary.totalCurrentValue =
              SumOf([k \in own |-> calculateCurrentValue(k).ret])
       /\ summary.activeSIPCount = InState("ACTIVE")
       /\ summary.pausedSIPCount = InState("PAUSED")
       /\ summary.stoppedSIPCount = InState("STOPPED")
       /\ summary.activeSIPCount + summary.pausedSIPCount + summary.stoppedSIPCount
              = Cardinality(own)

(* C32: getPortfolioSummary(user) reports totalInvested, totalUnits and
   totalCurrentValue equal to the sums of the per-SIP values over all SIPs
   of that user, and its three counts add up to the number of that user's
   SIPs, each SIP counted once under its current state. *)
C32_SummaryAddsUpOwnSips ==
    /\ \A userId \in UserIds : SummarisesUser(getPortfolioSummary(userId), userId)
    /\ last.op = "getPortfolioSummary" => SummarisesUser(last.ret, last.id[1])

\* The summary of a user is read while that user has two SIPs with paid
\* installments, one ACTIVE and one no longer so, and another user has a
\* SIP with a paid installment as well.
C32_Witness ==
    /\ last.op = "getPortfolioSummary"
    /\ last.id[1] = "u1"
    /\ last.ret.activeSIPCount = 1
    /\ last.ret.pausedSIPCount + last.ret.stoppedSIPCount = 1
    /\ \A k \in DOMAIN sipStorage : calculateTotalInvested(k) > 0
    /\ Cardinality(SipsOf("u1")) = 2
    /\ Cardinality(SipsOf("u2")) = 1
    /\ last.ret.totalInvested = 1500

\* The installment number a transaction was created for: the n whose
\* stepped-up amount is the transaction's amount (the SIP's step-up is
\* positive and is never modified, so there is one such n).
InstallmentOf(t) ==
    LET sip == sipStorage[txnStorage[t].sipId]
    IN CHOOSE n \in 1..(MaxRetryTxns + 2) :
           calculateSteppedUpAmount(sip.baseAmount, sip.stepUpPercentage, n)
               = txnStorage[t].amount

(* C33: for every SIP, the transactions with status SUCCESS carry pairwise
   distinct installment numbers: under any interleaving of passes and
   deferred callbacks, no installment of a SIP is paid by two successful
   transactions of the same installment number and amount. *)
C33_OneSuccessPerInstallment ==
    \A sipId \in DOMAIN sipStorage :
        \A t, u \in SuccessfulTxns(sipId) :
            t # u => InstallmentOf(t) # InstallmentOf(u)

\* The number of periods of a schedule that fall on or before asOfDate.
PeriodsDue(startDate, frequency, asOfDate) ==
    Cardinality({n \in 0..(MaxRetryTxns + 1) :
                    Advanced(startDate, frequency, n) <= asOfDate})

(* C34: one executeDueSIPs pass initiates at most one transaction per SIP,
   also when the callback is synchronous and the SIP is still due after its
   schedule was advanced; no other step initiates one, and a step moves a
   SIP's nextExecutionDate by one period at most, on one transaction of the
   SIP becoming SUCCESS.  Hence a SIP whose nextExecutionDate is later than
   asOfDate has had at least as many passes, each with a SUCCESS
   transaction, as it had periods on or before asOfDate. *)
C34_OnePeriodPerPass ==
    /\ [][\A s \in DOMAIN sipStorage :
            /\ Cardinality(NewTxns(s)) <=
                  IF last'.op = "executeDueSIPs" THEN 1 ELSE 0
            /\ sipStorage'[s].nextExecutionDate # sipStorage[s].nextExecutionDate =>
                  /\ sipStorage'[s].nextExecutionDate =
                        calculateNextExecutionDate(sipStorage[s].nextExecutionDate,
                                                   sipStorage[s].frequency)
                  /\ Cardinality({t \in DOMAIN txnStorage' :
                        /\ txnStorage'[t].sipId = s
                        /\ Applied(t, "SUCCESS")}) = 1]_vars
    /\ [](\A s \in DOMAIN sipStorage, asOfDate \in AsOfDates :
            sipStorage[s].nextExecutionDate > asOfDate =>
                Cardinality(SuccessfulTxns(s)) >=
                    PeriodsDue(sipStorage[s].startDate, sipStorage[s].frequency,
                               asOfDate))

\* A synchronous pass at day 130 was the fourth for a monthly SIP started on
\* day 30: only now is its nextExecutionDate later than day 130.
C34_Witness ==
    /\ last.op = "executeDueSIPs"
    /\ last.arg = 130
    /\ last.ret = 1
    /\ autoComplete
    /\ \E s \in DOMAIN sipStorage :
        /\ sipStorage[s].nextExecutionDate > 130
        /\ sipStorage[s].installmentCount = 4
        /\ Cardinality(SipTxns(s)) = 4
        /\ PeriodsDue(sipStorage[s].startDate, sipStorage[s].frequency, 130) = 4

(* C35: in every reachable state a transaction's callback-processed flag is
   true if and only if its status is not PENDING, whichever PaymentStatus
   value the payment collaborator passes to the callback. *)
C35_FlagIffNotPending ==
    \A t \in DOMAIN txnStorage :
        txnStorage[t].callbackProcessed <=> txnStorage[t].status # "PENDING"

\* A step in which createSIP succeeds stores exactly one SIP more, under an
\* identifier not in use, ACTIVE, with no installment and due from its start
\* date, and changes nothing else.
CreatesOneSip ==
    (last'.op = "createSIP" /\ last'.err = NoError) =>
        LET sipId == last'.id IN
        /\ sipId \notin DOMAIN sipStorage
        /\ \A t \in DOMAIN txnStorage : txnStorage[t].sipId # sipId
        /\ DOMAIN sipStorage' = DOMAIN sipStorage \cup {sipId}
        /\ \A s \in DOMAIN sipStorage : sipStorage'[s] = sipStorage[s]
        /\ sipStorage'[sipId].id = sipId
        /\ sipStorage'[sipId].state = "ACTIVE"
        /\ sipStorage'[sipId].installmentCount = 0
        /\ sipStorage'[sipId].nextExecutionDate = sipStorage'[sipId].startDate
        /\ \A asOfDate \in sipStorage'[sipId].startDate..MaxStartDay :
              isDue(sipStorage'[sipId], asOfDate)
        /\ UNCHANGED <<txnStorage, pendingPayments, navData>>

\* The dates from the SIP's start date on.
FromStartDate(sip) == {sip.startDate, sip.startDate + 1, 130, MaxStartDay}

(* C36 as stated: a successful createSIP stores exactly one new SIP with a
   fresh id, state ACTIVE, installmentCount 0 and nextExecutionDate equal
   to startDate, and leaves every existing SIP unchanged; the new SIP is due
   at every asOfDate >= startDate until its first SUCCESS callback. *)
C36_DueUntilFirstSuccess ==
    /\ [][CreatesOneSip]_vars
    /\ [](\A s \in DOMAIN sipStorage :
            SuccessfulTxns(s) = {} =>
                \A asOfDate \in FromStartDate(sipStorage[s]) :
                    isDue(sipStorage[s], asOfDate))

(* C36 amended: a successful createSIP stores exactly one new SIP with a
   fresh id, state ACTIVE, installmentCount 0 and nextExecutionDate equal
   to startDate, and leaves every existing SIP unchanged; until its first
   SUCCESS callback the new SIP is due at every asOfDate >= startDate while
   it is ACTIVE, and at none while it is PAUSED or STOPPED. *)
C36_DueWhileActiveUntilFirstSuccess ==
    /\ [][CreatesOneSip]_vars
    /\ [](\A s \in DOMAIN sipStorage :
            SuccessfulTxns(s) = {} =>
                \A asOfDate \in FromStartDate(sipStorage[s]) :
                    isDue(sipStorage[s], asOfDate) <=> sipStorage[s].state = "ACTIVE")

\* createSIP has just stored a second SIP next to one that already has a
\* paid installment; the new one is due and has no transaction.
C36_Witness ==
    /\ last.op = "createSIP"
    /\ last.err = NoError
    /\ last.id \in DOMAIN sipStorage
    /\ SipTxns(last.id) = {}
    /\ isDue(sipStorage[last.id], 31)
    /\ \E s \in DOMAIN sipStorage \ {last.id} : sipStorage[s].installmentCount = 1

\* The SIPs a pass at asOfDate pays: due, and in a fund with a NAV.
PaidBy(asOfDate) ==
    {s \in DOMAIN sipStorage :
        /\ isDue(sipStorage[s], asOfDate)
        /\ sipStorage[s].fundId \in DOMAIN navData}

(* C37: when executeDueSIPs is invoked again and again with one asOfDate and
   every initiated payment is eventually reported SUCCESS, every SIP whose
   fund is known and that stays ACTIVE eventually has nextExecutionDate
   later than asOfDate; from then on its nextExecutionDate stays later,
   passes initiate nothing for it, and a pass returns 0 and leaves the
   ledger alone when no SIP is left to pay. *)
C37_EventuallyNothingDue ==
    /\ \A s \in LiveSips :
          (s \in DOMAIN sipStorage
              /\ sipStorage[s].fundId \in DOMAIN navData)
          ~> (s \in DOMAIN sipStorage
              /\ (sipStorage[s].nextExecutionDate > LiveDate
                  \/ sipStorage[s].state # "ACTIVE"))
    /\ [][\A s \in DOMAIN sipStorage :
            sipStorage[s].nextExecutionDate > LiveDate =>
                /\ sipStorage'[s].nextExecutionDate > LiveDate
                /\ NewTxns(s) = {}]_vars
    /\ [][(last'.op = "executeDueSIPs" /\ PaidBy(last'.arg) = {}) =>
            /\ last'.ret = 0
            /\ UNCHANGED <<sipStorage, txnStorage, counter, pendingPayments>>]_vars

\* A pass at the date returned 0: the SIP in the known fund, two periods
\* behind at first, has been paid twice and is no longer due, and the SIP of
\* the unknown fund is still where it started.
C37_Witness ==
    /\ last.op = "executeDueSIPs"
    /\ last.ret = 0
    /\ pendingPayments = Empty
    /\ \E s, u \in DOMAIN sipStorage :
        /\ sipStorage[s].state = "ACTIVE"
        /\ sipStorage[s].installmentCount = 2
        /\ sipStorage[s].nextExecutionDate > LiveDate
        /\ PeriodsDue(sipStorage[s].startDate, sipStorage[s].frequency, LiveDate) = 2
        /\ sipStorage[u].fundId \notin DOMAIN navData
        /\ isDue(sipStorage[u], LiveDate)

\* C38: after any sequence of add, update and remove on the SIP repository,
\* getByUserId(u) returns exactly the stored SIPs whose userId is u and
\* getByFundId(f) exactly those whose fundId is f, also after add was called
\* with an id already stored under a different user or fund.
C38_IndexesMatchStorage ==
    /\ \A userId \in UserIds \cup {UnknownUser} :
           getByUserId(sipStorage, userIndex, userId)
               = {sipStorage[id] : id \in {i \in DOMAIN sipStorage :
                                              sipStorage[i].userId = userId}}
    /\ \A fundId \in FundIds \cup {UnknownFund} :
           getByFundId(sipStorage, fundIndex, fundId)
               = {sipStorage[id] : id \in {i \in DOMAIN sipStorage :
                                              sipStorage[i].fundId = fundId}}

\* The ledger entries of one SIP.
LedgerOf(txns, sipId) == {id \in DOMAIN txns : txns[id].sipId = sipId}

\* From the state as it stands: pauseSIP, a whole scheduler pass as of the
\* date, unpauseSIP.  The pass leaves the paused SIP and its ledger entries
\* alone, and the SIP after unpauseSIP equals the SIP before pauseSIP.
PauseCycleRestores(sipId, asOfDate) ==
    \A paused \in {pauseSIP(sipStorage, sipId)} :
        /\ paused.err = NoError
        /\ paused.storage[sipId] = [sipStorage[sipId] EXCEPT !.state = "PAUSED"]
        /\ \A dueSIPs \in Orders(getDueSIPs(paused.storage, asOfDate)) :
           \A results \in [{sip.id : sip \in getDueSIPs(paused.storage, asOfDate)}
                               -> {"SUCCESS", "FAILURE"}] :
           \A st \in {executeLoop(Stores(paused.storage, txnStorage, counter,
                                         pendingPayments, 0),
                                  dueSIPs, 1, asOfDate, results)} :
           \A back \in {unpauseSIP(st.sips, sipId)} :
               /\ st.sips[sipId] = paused.storage[sipId]
               /\ LedgerOf(st.txns, sipId) = LedgerOf(txnStorage, sipId)
               /\ back.err = NoError
               /\ back.storage[sipId] = sipStorage[sipId]
               /\ \A date \in AsOfDates \cup {PauseCycleDate} :
                      (sipStorage[sipId] \in getDueSIPs(sipStorage, date))
                          <=> (back.storage[sipId] \in getDueSIPs(back.storage, date))

\* The same in the steps the system takes: a pass that starts while a SIP
\* is PAUSED leaves it and its ledger entries alone, and pauseSIP and
\* unpauseSIP change the state field only.
PauseCycleStep ==
    \A sipId \in DOMAIN sipStorage :
        /\ (sipStorage[sipId].state = "PAUSED" /\ last'.op = "executeDueSIPs")
               => /\ sipStorage'[sipId] = sipStorage[sipId]
                  /\ LedgerOf(txnStorage', sipId) = LedgerOf(txnStorage, sipId)
        /\ (last'.op \in {"pause", "unpause"} /\ last'.id = sipId
               /\ last'.err = NoError)
               => /\ sipStorage'[sipId] =
                         [sipStorage[sipId] EXCEPT
                             !.state = IF last'.op = "pause"
                                       THEN "PAUSED" ELSE "ACTIVE"]
                  /\ sipStorage[sipId].state =
                         IF last'.op = "pause" THEN "ACTIVE" ELSE "PAUSED"
                  /\ txnStorage' = txnStorage

\* C39: pauseSIP followed by unpauseSIP on an ACTIVE SIP, with no callback
\* applied to it in between, gives back a SIP equal in every field to the one
\* before the pause (nextExecutionDate and installmentCount included), so
\* it is due on the same dates as before, and a scheduler pass run while
\* it was PAUSED creates no transaction for it.
C39_PauseUnpauseRestores ==
    /\ [](\A sipId \in DOMAIN sipStorage :
              sipStorage[sipId].state = "ACTIVE"
                  => PauseCycleRestores(sipId, PauseCycleDate))
    /\ [][PauseCycleStep]_vars

\* unpauseSIP has just resumed a SIP that no pass has executed, while the
\* other SIP was executed, and the resumed SIP is due.
C39_Witness ==
    /\ last.op = "unpause"
    /\ last.err = NoError
    /\ \E sipId \in DOMAIN sipStorage, other \in DOMAIN sipStorage :
        /\ sipId = last.id
        /\ other # sipId
        /\ sipStorage[sipId].state = "ACTIVE"
        /\ LedgerOf(txnStorage, sipId) = {}
        /\ LedgerOf(txnStorage, other) # {}
        /\ sipStorage[sipId] \in getDueSIPs(sipStorage, PauseCycleDate)

\* C40: the payment service calls the registered completion handler at most
\* once for each transaction id, whatever sequence of initiatePayment (in
\* immediate mode), completePayment and onPaymentCallback it gets for it.
C40_HandlerCalledOncePerId ==
    \A transactionId \in DOMAIN completionHandler.calls :
        completionHandler.calls[transactionId] <= 1

====
